---- MODULE Spec2Model ----
(***************************************************************************)
(* Simple Chat Protocol (SCP v1.0): the server session state machine, the   *)
(* registry and the pairing of src/server.py, and the client state machine  *)
(* of src/client.py.                                                        *)
(*                                                                          *)
(* A connection is a number in Conns.  The server keeps one                 *)
(* SCPServerProtocol object per connection; the fields of that object are   *)
(* functions over Conns.  Strings (user names, text) are sequences of       *)
(* one-character strings, so that the formatting done by the server and the *)
(* parsing done by the client are computed, not assumed.  An Optional[str]  *)
(* is a sequence of at most one string: << >> is None, <<s>> is s.          *)
(***************************************************************************)
EXTENDS Integers, Sequences, FiniteSets, TLC

\* ------------------------------------------------------------------ bounds
\* Number of connections the server accepts in one behaviour.
MaxConns == 3

Conns == 1 .. MaxConns

\* The MAX_CLIENTS of the runs in which the registry fills up: one less than
\* the connections there are.
SmallCapacity == 2

\* Number of client processes run against the server.
NumClients == 2

Clients == 1 .. NumClients

\* Number of lines of chat text the users type in one behaviour of the system.
MaxTexts == 1

\* "No session" (a None reference to an SCPServerProtocol object).
NoConn == 0

\* ------------------------------------------------------------- constants
\* src/scp_constants.py
SCP_CONNECT_SUCCESS == 0
SCP_CONNECT_ERR_USER_EXISTS == 1
SCP_CONNECT_ERR_SERVER_FULL == 3
SCP_CHAT_INIT_FORWARDED == 0
SCP_CHAT_INIT_ERR_PEER_NF == 1
SCP_CHAT_INIT_ERR_PEER_BUSY == 2
SCP_CHAT_INIT_ERR_SELF_CHAT == 3
SCP_CHAT_INIT_ERR_PEER_REJECTED == 4
SCP_CHAT_FWD_ACCEPTED == 0
SCP_CHAT_FWD_REJECTED == 1
SCP_ERR_MALFORMED_MSG == 1
SCP_ERR_UNEXPECTED_MSG_TYPE == 2
SCP_ERR_INTERNAL_SERVER_ERR == 4
SCP_ERR_INVALID_PAYLOAD_LEN == 3
SCP_ERR_UNSUPPORTED_VERSION == 5

\* src/server.py: MAX_CLIENTS = 10.  The model keeps the comparison of the code
\* and scales the limit down: with MAX_CLIENTS every connection of Conns can be
\* registered at once.
MAX_CLIENTS == 3

\* SCPServerState members
ServerStates ==
  {"AUTHENTICATING", "IDLE", "AWAITING_PEER_FOR_INIT", "AWAITING_CHAT_RESPONSE", "IN_CHAT"}

\* SCPMessageType members that PDU_UNPACKERS can decode
MessageTypes ==
  {"CONNECT_REQ", "CONNECT_RESP", "CHAT_INIT_REQ", "CHAT_INIT_RESP", "CHAT_FWD_REQ",
   "CHAT_FWD_RESP", "TEXT", "DISCONNECT_REQ", "DISCONNECT_NOTIF", "ERROR"}

\* The types a client never sends: handle_scp_message has no branch for them.
ClientBoundTypes ==
  {"CONNECT_RESP", "CHAT_INIT_RESP", "CHAT_FWD_REQ", "DISCONNECT_NOTIF", "ERROR"}

\* ---------------------------------------------------------------- strings
Str_a == <<"a">>
Str_b == <<"b">>
Str_empty == << >>
Str_hi == <<"h", "i">>
Str_chat_with == <<"C", "h", "a", "t", " ", "w", "i", "t", "h", " ">>
Str_started == <<" ", "s", "t", "a", "r", "t", "e", "d", ".">>
Str_colon == <<":", " ">>

Str_a_dot == <<"a", ".">>
Str_with == <<"w", "i", "t", "h">>
Str_started_word == <<"s", "t", "a", "r", "t", "e", "d">>
Str_chat_with_words == <<"C", "h", "a", "t", " ", "w", "i", "t", "h">>

\* str.lower() on the letters the model's strings use
LowerChar(ch) ==
  CASE ch = "C" -> "c"
    [] ch = "A" -> "a"
    [] ch = "B" -> "b"
    [] OTHER -> ch
Lower(s) == [i \in 1 .. Len(s) |-> LowerChar(s[i])]

\* `sub in s` for two str
Contains(s, sub) ==
  \E k \in 0 .. (Len(s) - Len(sub)) : SubSeq(s, k + 1, k + Len(sub)) = sub

\* s.split(" "): the parts between single spaces (at least one part)
RECURSIVE SplitFrom(_, _, _)
SplitFrom(s, i, cur) ==
  IF i > Len(s) THEN <<cur>>
  ELSE IF s[i] = " " THEN <<cur>> \o SplitFrom(s, i + 1, << >>)
  ELSE SplitFrom(s, i + 1, Append(cur, s[i]))
Split(s) == SplitFrom(s, 1, << >>)

\* list.index(x): the first position of x (1-based), 0 when x is absent (ValueError)
IndexOf(parts, x) ==
  IF \E k \in 1 .. Len(parts) : parts[k] = x
    THEN CHOOSE k \in 1 .. Len(parts) :
           parts[k] = x /\ \A j \in 1 .. (k - 1) : parts[j] # x
    ELSE 0

\* s.endswith('.')
EndsWithDot(s) == Len(s) > 0 /\ s[Len(s)] = "."

\* Optional[str]
None == << >>
Some(s) == <<s>>

\* The names a CONNECT_REQ, CHAT_INIT_REQ or CHAT_FWD_RESP may carry.  A name of
\* length 0 is what ConnectReqPDU.unpack yields for name_len = 0.
WireNames == {Str_empty, Str_a, Str_b}
WireTexts == {Str_hi}

\* ------------------------------------------------------------------- PDUs
ConnectReqPDU(username_) == [type |-> "CONNECT_REQ", name |-> username_]
ConnectRespPDU(status_code) == [type |-> "CONNECT_RESP", status |-> status_code]
ChatInitReqPDU(peer_username) == [type |-> "CHAT_INIT_REQ", name |-> peer_username]
ChatInitRespPDU(status_code) == [type |-> "CHAT_INIT_RESP", status |-> status_code]
ChatFwdReqPDU(originator_username) == [type |-> "CHAT_FWD_REQ", name |-> originator_username]
ChatFwdRespPDU(status_code, originator_username) ==
  [type |-> "CHAT_FWD_RESP", status |-> status_code, name |-> originator_username]
TextPDU(text_message) == [type |-> "TEXT", text |-> text_message]
DisconnectReqPDU == [type |-> "DISCONNECT_REQ"]
DisconnectNotifPDU(peer_username) == [type |-> "DISCONNECT_NOTIF", name |-> peer_username]
ErrorPDU(error_code, error_message) ==
  [type |-> "ERROR", code |-> error_code, msg |-> error_message]

\* ------------------------------------------------------------------ state
VARIABLES
  conn,                      \* transport of each connection: "absent", "open",
                             \* "closed" (the server called close()), "terminated"
  client_state,              \* SCPServerProtocol.client_state
  username,                  \* SCPServerProtocol.username (Optional[str])
  current_chat_partner,      \* SCPServerProtocol.current_chat_partner
  pending_chat_request_to,   \* SCPServerProtocol.pending_chat_request_to
  pending_chat_request_from, \* SCPServerProtocol.pending_chat_request_from
  active_users,              \* the dict username -> session
  chat_sessions,             \* the dict session -> chat partner
  connected_clients,         \* the keys of the dict client address -> session
  max_clients,               \* the module global MAX_CLIENTS the server runs with
  sent,                      \* the send_pdu calls of the last step, in order
  last,                      \* the event the last step handled
  c_state,                   \* SCPClientProtocol.client_state of the client of a connection
  c_username,                \* SCPClientProtocol.username
  current_chat_target,       \* SCPClientProtocol.current_chat_target
  pending_fwd_from,          \* SCPClientProtocol.pending_fwd_from
  c_transport,               \* the client's end of the connection: "none", "open",
                             \* "closed" (the client called close()), "terminated"
  ui,                        \* the input task amain: "none", "running", "exited"
  c2s,                       \* PDUs in flight from each client to the server
  s2c,                       \* PDUs in flight from the server to each client
  texts_left,                \* lines of chat text the users may still type
  issued,                    \* history: the commands each client's state machine acted on
  written,                   \* the whole PDUs written to the connection under study
  unread,                    \* their bytes that have not arrived at the receiver yet
  dispatched,                \* the PDUs the receiver passed to handle_scp_message
  malformed,                 \* the arrivals the receiver reported as malformed or failed on
  receiver                   \* the end that reads the byte stream: "server" or "client"

server_vars ==
  <<conn, client_state, username, current_chat_partner, pending_chat_request_to,
    pending_chat_request_from, active_users, chat_sessions, connected_clients,
    max_clients, sent, last>>

client_vars ==
  <<c_state, c_username, current_chat_target, pending_fwd_from, c_transport, ui,
    c2s, s2c, texts_left, issued>>

frame_vars == <<written, unread, dispatched, malformed, receiver>>

vars == <<server_vars, client_vars, frame_vars>>

\* The fields and dicts a handler may write.
session_vars ==
  <<client_state, username, current_chat_partner, pending_chat_request_to,
    pending_chat_request_from, active_users, chat_sessions, connected_clients>>

\* ---------------------------------------------------------------- helpers
\* dict.get(key): the value, or None
DictGet(d, k) == IF k \in DOMAIN d THEN d[k] ELSE NoConn
\* d[key] = value
DictSet(d, k, v) == [x \in DOMAIN d \cup {k} |-> IF x = k THEN v ELSE d[x]]
\* del d[key] (for a key that may be absent: the code tests membership first)
DictDel(d, k) == [x \in DOMAIN d \ {k} |-> d[x]]

\* One send_pdu call: the session whose transport is written, the PDU, and the
\* stream: "request" is the stream_id the event arrived on, "next" is what
\* _quic.get_next_available_stream_id(is_unidirectional=False) returned.
Send(c, pdu, stream) == [to |-> c, pdu |-> pdu, stream |-> stream]

\* get_next_available_stream_id returns the next unused stream id of the
\* connection; it is never None for a QuicConnection.
StreamAvailable(c) == TRUE

\* The server process has started with MAX_CLIENTS = limit and no client process
\* has.
Started(limit) ==
  /\ max_clients = limit
  /\ conn = [c \in Conns |-> "absent"]
  /\ client_state = [c \in Conns |-> "AUTHENTICATING"]
  /\ username = [c \in Conns |-> None]
  /\ current_chat_partner = [c \in Conns |-> NoConn]
  /\ pending_chat_request_to = [c \in Conns |-> NoConn]
  /\ pending_chat_request_from = [c \in Conns |-> NoConn]
  /\ active_users = << >>
  /\ chat_sessions = << >>
  /\ connected_clients = {}
  /\ sent = << >>
  /\ last = [kind |-> "init", conn |-> NoConn, pdu |-> [type |-> "none"]]
  /\ c_state = [c \in Conns |-> "DISCONNECTED"]
  /\ c_username = [c \in Conns |-> None]
  /\ current_chat_target = [c \in Conns |-> None]
  /\ pending_fwd_from = [c \in Conns |-> None]
  /\ c_transport = [c \in Conns |-> "none"]
  /\ ui = [c \in Conns |-> "none"]
  /\ c2s = [c \in Conns |-> << >>]
  /\ s2c = [c \in Conns |-> << >>]
  /\ texts_left = MaxTexts
  /\ issued = [c \in Conns |-> {}]

\* Nothing has been written to a connection at the level of bytes.
NoTraffic ==
  /\ written = << >>
  /\ unread = << >>
  /\ dispatched = << >>
  /\ malformed = 0
  /\ receiver = "none"

Init == Started(MAX_CLIENTS) /\ NoTraffic

\* ------------------------------------------------------- server: handlers
\* The names src/server.py imports from scp_constants (lines 11-17).  A name the
\* module uses without importing it raises NameError where it is evaluated.
ServerImports ==
  {"SCP_CONNECT_SUCCESS", "SCP_CONNECT_ERR_USER_EXISTS", "SCP_CONNECT_ERR_SERVER_FULL",
   "SCP_CHAT_INIT_FORWARDED", "SCP_CHAT_INIT_ERR_PEER_NF", "SCP_CHAT_INIT_ERR_PEER_BUSY",
   "SCP_CHAT_INIT_ERR_SELF_CHAT", "SCP_CHAT_FWD_ACCEPTED", "SCP_CHAT_FWD_REJECTED",
   "SCP_ERR_MALFORMED_MSG", "SCP_ERR_UNEXPECTED_MSG_TYPE", "SCP_ERR_INTERNAL_SERVER_ERR"}

\* Mutant of Close: the connection is left open.
Close_LeftOpen(c) == conn

\* self.close(): the server closes the QUIC connection of session c.
Close(c) == [conn EXCEPT ![c] = IF @ = "open" THEN "closed" ELSE @]

\* self.close() in a handler that runs while the transport is in state `transport`
\* (a connection that has terminated stays terminated).
CloseFrom(transport, c) == IF transport = "terminated" THEN conn ELSE Close(c)

\* _send_unexpected_msg_error
send_unexpected_msg_error(c) ==
  /\ sent' = <<Send(c, ErrorPDU(SCP_ERR_UNEXPECTED_MSG_TYPE,
                                "Unexpected message in state " \o client_state[c]),
                    "request")>>
  /\ UNCHANGED <<session_vars, conn>>

\* The except Exception clause of quic_event_received: whatever the handler did
\* before it raised stays done, and ERROR(INTERNAL) goes to the sender.
InternalErrorSend(c) ==
  Send(c, ErrorPDU(SCP_ERR_INTERNAL_SERVER_ERR, "Server error processing message"),
       "request")

\* Mutant of ConnectStatus: the test `len(active_users) >= MAX_CLIENTS` is dropped.
ConnectStatus_NoFullCheck(name_) ==
  IF name_ \in DOMAIN active_users THEN SCP_CONNECT_ERR_USER_EXISTS
  ELSE SCP_CONNECT_SUCCESS

\* Mutant of ConnectStatus: the test `username in active_users` is dropped.
ConnectStatus_NoExistsCheck(name_) ==
  IF Cardinality(DOMAIN active_users) >= max_clients THEN SCP_CONNECT_ERR_SERVER_FULL
  ELSE SCP_CONNECT_SUCCESS

\* handle_connect_req: the status computed for a CONNECT_REQ
ConnectStatus(name_) ==
  IF name_ \in DOMAIN active_users THEN SCP_CONNECT_ERR_USER_EXISTS
  ELSE IF Cardinality(DOMAIN active_users) >= max_clients THEN SCP_CONNECT_ERR_SERVER_FULL
  ELSE SCP_CONNECT_SUCCESS

handle_connect_req(c, pdu) ==
  LET status == ConnectStatus(pdu.name) IN
  /\ IF status = SCP_CONNECT_SUCCESS
       THEN /\ username' = [username EXCEPT ![c] = Some(pdu.name)]
            /\ client_state' = [client_state EXCEPT ![c] = "IDLE"]
            /\ active_users' = DictSet(active_users, pdu.name, c)
            /\ connected_clients' = connected_clients \cup {c}
            /\ UNCHANGED <<current_chat_partner, pending_chat_request_to,
                           pending_chat_request_from, chat_sessions>>
       ELSE UNCHANGED session_vars
  /\ sent' = <<Send(c, ConnectRespPDU(status), "request")>>
  /\ conn' = IF status # SCP_CONNECT_SUCCESS THEN Close(c) ELSE conn

\* Mutant of ChatInitStatus: the test `peer_username == self.username` is dropped.
ChatInitStatus_NoSelfCheck(c, peer_username) ==
  LET target_client == DictGet(active_users, peer_username) IN
  IF target_client = NoConn THEN SCP_CHAT_INIT_ERR_PEER_NF
  ELSE IF client_state[target_client] # "IDLE" THEN SCP_CHAT_INIT_ERR_PEER_BUSY
  ELSE SCP_CHAT_INIT_FORWARDED

\* Mutant of ChatInitStatus: the test of the target's state is dropped.
ChatInitStatus_NoBusyCheck(c, peer_username) ==
  LET target_client == DictGet(active_users, peer_username) IN
  IF Some(peer_username) = username[c] THEN SCP_CHAT_INIT_ERR_SELF_CHAT
  ELSE IF target_client = NoConn THEN SCP_CHAT_INIT_ERR_PEER_NF
  ELSE SCP_CHAT_INIT_FORWARDED

\* handle_chat_init_req: the status computed for a CHAT_INIT_REQ
ChatInitStatus(c, peer_username) ==
  LET target_client == DictGet(active_users, peer_username) IN
  IF Some(peer_username) = username[c] THEN SCP_CHAT_INIT_ERR_SELF_CHAT
  ELSE IF target_client = NoConn THEN SCP_CHAT_INIT_ERR_PEER_NF
  ELSE IF client_state[target_client] # "IDLE" THEN SCP_CHAT_INIT_ERR_PEER_BUSY
  ELSE IF StreamAvailable(target_client) THEN SCP_CHAT_INIT_FORWARDED
  ELSE SCP_CHAT_INIT_ERR_PEER_BUSY

\* Mutant of ForwardChatRequest: the target's pending_chat_request_from is not set.
ForwardChatRequest_NoPendingFrom(c, target_client) ==
  /\ client_state' = [client_state EXCEPT ![target_client] = "AWAITING_CHAT_RESPONSE",
                                          ![c] = "AWAITING_PEER_FOR_INIT"]
  /\ pending_chat_request_to' = [pending_chat_request_to EXCEPT ![c] = target_client]
  /\ sent' = <<Send(target_client, ChatFwdReqPDU(username[c][1]), "next"),
               Send(c, ChatInitRespPDU(SCP_CHAT_INIT_FORWARDED), "request")>>
  /\ UNCHANGED <<username, current_chat_partner, pending_chat_request_from, active_users,
                 chat_sessions, connected_clients, conn>>

\* handle_chat_init_req, lines 204-219: the request is forwarded to the target
ForwardChatRequest(c, target_client) ==
  /\ client_state' = [client_state EXCEPT ![target_client] = "AWAITING_CHAT_RESPONSE",
                                          ![c] = "AWAITING_PEER_FOR_INIT"]
  /\ pending_chat_request_from' = [pending_chat_request_from EXCEPT ![target_client] = c]
  /\ pending_chat_request_to' = [pending_chat_request_to EXCEPT ![c] = target_client]
  /\ sent' = <<Send(target_client, ChatFwdReqPDU(username[c][1]), "next"),
               Send(c, ChatInitRespPDU(SCP_CHAT_INIT_FORWARDED), "request")>>
  /\ UNCHANGED <<username, current_chat_partner, active_users, chat_sessions,
                 connected_clients, conn>>

handle_chat_init_req(c, pdu) ==
  LET peer_username == pdu.name
      target_client == DictGet(active_users, peer_username)
      status == ChatInitStatus(c, peer_username)
  IN IF status = SCP_CHAT_INIT_FORWARDED
       THEN ForwardChatRequest(c, target_client)
       ELSE /\ sent' = <<Send(c, ChatInitRespPDU(status), "request")>>
            /\ client_state' = [client_state EXCEPT ![c] = "IDLE"]
            /\ UNCHANGED <<username, current_chat_partner, pending_chat_request_to,
                           pending_chat_request_from, active_users, chat_sessions,
                           connected_clients, conn>>

\* Mutant of OriginatorMismatch: the originator is not compared with
\* pending_chat_request_from.
OriginatorMismatch_NoPendingCheck(c, originator_client) == originator_client = NoConn

\* handle_chat_fwd_resp, lines 239-246: the test for an unknown or mismatched
\* originator
OriginatorMismatch(c, originator_client) ==
  \/ originator_client = NoConn
  \/ originator_client # pending_chat_request_from[c]

\* Mutant of EstablishChat: the originator is not sent its start message.
EstablishChat_NoStartText(c, originator_client, originator_username) ==
  /\ current_chat_partner' = [current_chat_partner EXCEPT ![c] = originator_client,
                                                         ![originator_client] = c]
  /\ client_state' = [client_state EXCEPT ![c] = "IN_CHAT",
                                          ![originator_client] = "IN_CHAT"]
  /\ chat_sessions' = DictSet(DictSet(chat_sessions, c, originator_client),
                              originator_client, c)
  /\ sent' = <<Send(c, TextPDU(Str_chat_with \o originator_username \o Str_started),
                    "request")>>
  /\ pending_chat_request_to' = [pending_chat_request_to EXCEPT ![originator_client] = NoConn]
  /\ pending_chat_request_from' = [pending_chat_request_from EXCEPT ![c] = NoConn]
  /\ UNCHANGED <<username, active_users, connected_clients, conn>>

\* handle_chat_fwd_resp, lines 257-288: the chat session is established
EstablishChat(c, originator_client, originator_username) ==
  /\ current_chat_partner' = [current_chat_partner EXCEPT ![c] = originator_client,
                                                         ![originator_client] = c]
  /\ client_state' = [client_state EXCEPT ![c] = "IN_CHAT",
                                          ![originator_client] = "IN_CHAT"]
  /\ chat_sessions' = DictSet(DictSet(chat_sessions, c, originator_client),
                              originator_client, c)
  /\ sent' = <<Send(originator_client,
                    TextPDU(Str_chat_with \o username[c][1] \o Str_started), "next"),
               Send(c, TextPDU(Str_chat_with \o originator_username \o Str_started),
                    "request")>>
  /\ pending_chat_request_to' = [pending_chat_request_to EXCEPT ![originator_client] = NoConn]
  /\ pending_chat_request_from' = [pending_chat_request_from EXCEPT ![c] = NoConn]
  /\ UNCHANGED <<username, active_users, connected_clients, conn>>

\* handle_chat_fwd_resp, lines 290-295 and 303-306: the chat is rejected.
\* ChatInitRespPDU(SCP_CHAT_INIT_ERR_PEER_REJECTED) evaluates a name of
\* scp_constants; when the module did not import it the evaluation raises
\* NameError after line 249 cleared pending_chat_request_from.
RejectChat(c, originator_client) ==
  IF "SCP_CHAT_INIT_ERR_PEER_REJECTED" \in ServerImports
    THEN /\ sent' = <<Send(originator_client,
                           ChatInitRespPDU(SCP_CHAT_INIT_ERR_PEER_REJECTED), "next")>>
         /\ client_state' = [client_state EXCEPT ![originator_client] = "IDLE",
                                                 ![c] = "IDLE"]
         /\ pending_chat_request_to' =
              [pending_chat_request_to EXCEPT ![originator_client] = NoConn]
         /\ pending_chat_request_from' = [pending_chat_request_from EXCEPT ![c] = NoConn]
         /\ UNCHANGED <<username, current_chat_partner, active_users, chat_sessions,
                        connected_clients, conn>>
    ELSE /\ pending_chat_request_from' = [pending_chat_request_from EXCEPT ![c] = NoConn]
         /\ sent' = <<InternalErrorSend(c)>>
         /\ UNCHANGED <<client_state, username, current_chat_partner,
                        pending_chat_request_to, active_users, chat_sessions,
                        connected_clients, conn>>

handle_chat_fwd_resp(c, pdu) ==
  LET originator_username == pdu.name
      accepted == pdu.status = SCP_CHAT_FWD_ACCEPTED
      originator_client == DictGet(active_users, originator_username)
  IN IF OriginatorMismatch(c, originator_client)
       THEN /\ client_state' = [client_state EXCEPT ![c] = "IDLE"]
            /\ pending_chat_request_from' = [pending_chat_request_from EXCEPT ![c] = NoConn]
            /\ sent' = << >>
            /\ UNCHANGED <<username, current_chat_partner, pending_chat_request_to,
                           active_users, chat_sessions, connected_clients, conn>>
       ELSE IF StreamAvailable(originator_client)
         THEN IF accepted
                THEN EstablishChat(c, originator_client, originator_username)
                ELSE RejectChat(c, originator_client)
         ELSE /\ client_state' = [client_state EXCEPT ![c] = "IDLE",
                                                      ![originator_client] = "IDLE"]
              /\ pending_chat_request_to' =
                   [pending_chat_request_to EXCEPT ![originator_client] = NoConn]
              /\ pending_chat_request_from' =
                   [pending_chat_request_from EXCEPT ![c] = NoConn]
              /\ sent' = << >>
              /\ UNCHANGED <<username, current_chat_partner, active_users, chat_sessions,
                             connected_clients, conn>>

\* handle_text, line 313: the sender has a partner and the partner is IN_CHAT
\* Mutant of CanRelay: the test of the partner's state is dropped.
CanRelay_NoPeerStateCheck(c) == current_chat_partner[c] # NoConn

CanRelay(c) ==
  /\ current_chat_partner[c] # NoConn
  /\ client_state[current_chat_partner[c]] = "IN_CHAT"

handle_text(c, pdu) ==
  /\ sent' =
       IF CanRelay(c)
         THEN IF StreamAvailable(current_chat_partner[c])
                THEN <<Send(current_chat_partner[c],
                            TextPDU(username[c][1] \o Str_colon \o pdu.text), "next")>>
                ELSE <<Send(c, ErrorPDU(SCP_ERR_INTERNAL_SERVER_ERR,
                                        "Could not send message to peer."), "request")>>
         ELSE <<Send(c, ErrorPDU(SCP_ERR_UNEXPECTED_MSG_TYPE,
                                 "Cannot send TEXT, not in chat."), "request")>>
  /\ UNCHANGED <<session_vars, conn>>

\* cleanup_client, line 352: the partner is notified and released
NotifiesPeer(c, notify_peer) == notify_peer /\ current_chat_partner[c] # NoConn

\* `if self.username`: a str is true unless it is None or empty
Truthy(opt) == opt # None /\ opt[1] # Str_empty

cleanup_client(c, notify_peer, transport) ==
  LET partner == current_chat_partner[c]
      notify == NotifiesPeer(c, notify_peer)
      users1 == IF Truthy(username[c]) /\ username[c][1] \in DOMAIN active_users
                  THEN DictDel(active_users, username[c][1])
                  ELSE active_users
      chats1 == IF notify /\ partner \in DOMAIN chat_sessions
                  THEN DictDel(chat_sessions, partner)
                  ELSE chat_sessions
      chats2 == IF c \in DOMAIN chats1 THEN DictDel(chats1, c) ELSE chats1
  IN /\ connected_clients' = connected_clients \ {c}
     /\ active_users' = users1
     /\ sent' = IF notify /\ StreamAvailable(partner)
                  THEN <<Send(partner, DisconnectNotifPDU(username[c][1]), "next")>>
                  ELSE << >>
     /\ current_chat_partner' =
          IF notify
            THEN [current_chat_partner EXCEPT ![partner] = NoConn, ![c] = NoConn]
            ELSE [current_chat_partner EXCEPT ![c] = NoConn]
     /\ client_state' =
          IF notify
            THEN [client_state EXCEPT ![partner] = "IDLE", ![c] = "IDLE"]
            ELSE [client_state EXCEPT ![c] = "IDLE"]
     /\ chat_sessions' = chats2
     /\ username' = [username EXCEPT ![c] = None]
     /\ conn' = [CloseFrom(transport, c) EXCEPT ![c] = IF transport = "terminated"
                                                           THEN "terminated" ELSE @]
     /\ UNCHANGED <<pending_chat_request_to, pending_chat_request_from>>

handle_disconnect_req(c) == cleanup_client(c, TRUE, conn[c])

\* handle_scp_message: the dispatch on the message type and the session state
handle_scp_message(c, pdu) ==
  IF pdu.type = "CONNECT_REQ"
    THEN IF client_state[c] = "AUTHENTICATING"
           THEN handle_connect_req(c, pdu)
           ELSE send_unexpected_msg_error(c)
  ELSE IF username[c] = None
    THEN /\ conn' = Close(c)
         /\ sent' = << >>
         /\ UNCHANGED session_vars
  ELSE IF pdu.type = "CHAT_INIT_REQ"
    THEN IF client_state[c] = "IDLE"
           THEN handle_chat_init_req(c, pdu)
           ELSE send_unexpected_msg_error(c)
  ELSE IF pdu.type = "CHAT_FWD_RESP"
    THEN IF client_state[c] = "AWAITING_CHAT_RESPONSE"
           THEN handle_chat_fwd_resp(c, pdu)
           ELSE send_unexpected_msg_error(c)
  ELSE IF pdu.type = "TEXT"
    THEN IF client_state[c] = "IN_CHAT"
           THEN handle_text(c, pdu)
           ELSE send_unexpected_msg_error(c)
  ELSE IF pdu.type = "DISCONNECT_REQ"
    THEN handle_disconnect_req(c)
  ELSE send_unexpected_msg_error(c)

\* --------------------------------------------------------- server: events
Event(kind, c, pdu) == [kind |-> kind, conn |-> c, pdu |-> pdu]
NoPDU == [type |-> "none"]

\* The transport accepts a connection: serve() constructs an SCPServerProtocol
\* (__init__).  Connections are numbered in the order they are accepted.
ConnectionMade(c) ==
  /\ conn[c] = "absent"
  /\ \A d \in Conns : d < c => conn[d] # "absent"
  /\ conn' = [conn EXCEPT ![c] = "open"]
  /\ sent' = << >>
  /\ last' = Event("accept", c, NoPDU)
  /\ UNCHANGED <<session_vars, max_clients>>

\* quic_event_received with a StreamDataReceived event that decodes to pdu
StreamDataReceived(c, pdu) ==
  /\ conn[c] = "open"
  /\ handle_scp_message(c, pdu)
  /\ last' = Event("pdu", c, pdu)
  /\ UNCHANGED max_clients

\* quic_event_received with a ConnectionTerminated event
ConnectionTerminated(c) ==
  /\ conn[c] \in {"open", "closed"}
  /\ cleanup_client(c, FALSE, "terminated")
  /\ last' = Event("terminated", c, NoPDU)
  /\ UNCHANGED max_clients

\* The server alone, with any decodable PDU arriving on any open connection.
Accept(c) == ConnectionMade(c) /\ UNCHANGED <<client_vars, frame_vars>>
Receive(c, pdu) == StreamDataReceived(c, pdu) /\ UNCHANGED <<client_vars, frame_vars>>
Terminate(c) == ConnectionTerminated(c) /\ UNCHANGED <<client_vars, frame_vars>>

Next ==
  \/ \E c \in Conns : Accept(c)
  \/ \E c \in Conns, n \in WireNames : Receive(c, ConnectReqPDU(n))
  \/ \E c \in Conns, n \in WireNames : Receive(c, ChatInitReqPDU(n))
  \/ \E c \in Conns, n \in WireNames, st \in {SCP_CHAT_FWD_ACCEPTED, SCP_CHAT_FWD_REJECTED} :
       Receive(c, ChatFwdRespPDU(st, n))
  \/ \E c \in Conns, t \in WireTexts : Receive(c, TextPDU(t))
  \/ \E c \in Conns : Receive(c, DisconnectReqPDU)
  \/ \E c \in Conns, t \in ClientBoundTypes : Receive(c, [type |-> t])
  \/ \E c \in Conns : Terminate(c)

Spec == Init /\ [][Next]_vars

\* The same server started with a MAX_CLIENTS that MaxConns connections exceed.
CapInit == Started(SmallCapacity) /\ NoTraffic

CapSpec == CapInit /\ [][Next]_vars

\* ------------------------------------------------------- client: handlers
\* The names a user gives on the command line or after /chat, /accept, /reject.
ClientNames == {Str_a_dot, Str_b}

ClientStates ==
  {"DISCONNECTED", "CONNECTING", "IDLE", "INITIATING_CHAT", "PENDING_PEER_ACCEPT",
   "AWAITING_PEER_RESPONSE", "IN_CHAT", "DISCONNECTING"}

\* _log_unexpected_msg, handle_error, the final else: a log line, no change.
client_ignore(i) ==
  /\ UNCHANGED <<c_state, current_chat_target, pending_fwd_from>>
  /\ UNCHANGED <<c_transport, ui>>

\* Mutant of client_handle_connect_resp: a failed connect leaves the transport
\* open.
client_handle_connect_resp_NoClose(i, pdu) ==
  /\ c_state' = [c_state EXCEPT ![i] =
                   IF pdu.status = SCP_CONNECT_SUCCESS THEN "IDLE" ELSE "DISCONNECTED"]
  /\ UNCHANGED <<current_chat_target, pending_fwd_from>>
  /\ UNCHANGED <<c_transport, ui>>

client_handle_connect_resp(i, pdu) ==
  IF pdu.status = SCP_CONNECT_SUCCESS
  THEN /\ c_state' = [c_state EXCEPT ![i] = "IDLE"]
       /\ UNCHANGED <<current_chat_target, pending_fwd_from>>
       /\ UNCHANGED <<c_transport, ui>>
  ELSE \* self.close(); self.user_input_task.cancel()
       /\ c_state' = [c_state EXCEPT ![i] = "DISCONNECTED"]
       /\ c_transport' = [c_transport EXCEPT ![i] = "closed"]
       /\ ui' = [ui EXCEPT ![i] = "exited"]
       /\ UNCHANGED <<current_chat_target, pending_fwd_from>>

client_handle_chat_init_resp(i, pdu) ==
  IF pdu.status = SCP_CHAT_INIT_FORWARDED
  THEN /\ c_state' = [c_state EXCEPT ![i] = "AWAITING_PEER_RESPONSE"]
       /\ UNCHANGED <<current_chat_target, pending_fwd_from>>
       /\ UNCHANGED <<c_transport, ui>>
  ELSE /\ c_state' = [c_state EXCEPT ![i] = "IDLE"]
       /\ current_chat_target' = [current_chat_target EXCEPT ![i] = None]
       /\ UNCHANGED pending_fwd_from
       /\ UNCHANGED <<c_transport, ui>>

client_handle_chat_fwd_req(i, pdu) ==
  /\ pending_fwd_from' = [pending_fwd_from EXCEPT ![i] = Some(pdu.name)]
  /\ c_state' = [c_state EXCEPT ![i] = "PENDING_PEER_ACCEPT"]
  /\ UNCHANGED current_chat_target
  /\ UNCHANGED <<c_transport, ui>>

\* The peer name the client reads out of a chat-start notification:
\* parts[parts.index("with") + 1], less one trailing "."; None stands for the
\* ValueError or IndexError the code catches.
ParsePeerName(text) ==
  LET parts == Split(text)
      k == IndexOf(parts, Str_with)
  IN  IF k = 0 \/ k + 1 > Len(parts) THEN None
      ELSE IF EndsWithDot(parts[k + 1])
           THEN Some(SubSeq(parts[k + 1], 1, Len(parts[k + 1]) - 1))
           ELSE Some(parts[k + 1])

\* The first test of handle_text: the awaited peer accepted.
PeerAccepted(i, text) ==
  /\ c_state[i] = "AWAITING_PEER_RESPONSE"
  /\ Truthy(current_chat_target[i])
  /\ Contains(Lower(text), Str_started_word)
  /\ Contains(text, current_chat_target[i][1])

client_handle_text(i, pdu) ==
  /\ UNCHANGED <<c_transport, ui>>
  /\ IF PeerAccepted(i, pdu.text)
     THEN /\ c_state' = [c_state EXCEPT ![i] = "IN_CHAT"]
          /\ UNCHANGED <<current_chat_target, pending_fwd_from>>
     ELSE IF c_state[i] = "IN_CHAT"
     THEN UNCHANGED <<c_state, current_chat_target, pending_fwd_from>>
     ELSE IF /\ c_state[i] = "IDLE"
             /\ Contains(pdu.text, Str_chat_with_words)
             /\ Contains(pdu.text, Str_started_word)
     THEN IF ParsePeerName(pdu.text) = None
          THEN UNCHANGED <<c_state, current_chat_target, pending_fwd_from>>
          ELSE /\ current_chat_target' =
                    [current_chat_target EXCEPT ![i] = ParsePeerName(pdu.text)]
               /\ c_state' = [c_state EXCEPT ![i] = "IN_CHAT"]
               /\ UNCHANGED pending_fwd_from
     ELSE UNCHANGED <<c_state, current_chat_target, pending_fwd_from>>

client_handle_disconnect_notif(i, pdu) ==
  /\ c_state' = [c_state EXCEPT ![i] = "IDLE"]
  /\ current_chat_target' = [current_chat_target EXCEPT ![i] = None]
  /\ UNCHANGED pending_fwd_from
  /\ UNCHANGED <<c_transport, ui>>

\* Mutant of client_handle_scp_message: CHAT_FWD_REQ is handled in every state.
client_handle_scp_message_FwdAnyState(i, pdu) ==
  IF pdu.type = "CONNECT_RESP"
  THEN IF c_state[i] = "CONNECTING"
       THEN client_handle_connect_resp(i, pdu) ELSE client_ignore(i)
  ELSE IF pdu.type = "CHAT_INIT_RESP"
  THEN IF c_state[i] = "INITIATING_CHAT"
       THEN client_handle_chat_init_resp(i, pdu) ELSE client_ignore(i)
  ELSE IF pdu.type = "CHAT_FWD_REQ"
  THEN client_handle_chat_fwd_req(i, pdu)
  ELSE IF pdu.type = "TEXT"
  THEN client_handle_text(i, pdu)
  ELSE IF pdu.type = "DISCONNECT_NOTIF"
  THEN IF c_state[i] = "IN_CHAT"
       THEN client_handle_disconnect_notif(i, pdu) ELSE client_ignore(i)
  ELSE client_ignore(i)

client_handle_scp_message(i, pdu) ==
  IF pdu.type = "CONNECT_RESP"
  THEN IF c_state[i] = "CONNECTING"
       THEN client_handle_connect_resp(i, pdu) ELSE client_ignore(i)
  ELSE IF pdu.type = "CHAT_INIT_RESP"
  THEN IF c_state[i] = "INITIATING_CHAT"
       THEN client_handle_chat_init_resp(i, pdu) ELSE client_ignore(i)
  ELSE IF pdu.type = "CHAT_FWD_REQ"
  THEN IF c_state[i] = "IDLE"
       THEN client_handle_chat_fwd_req(i, pdu) ELSE client_ignore(i)
  ELSE IF pdu.type = "TEXT"
  THEN client_handle_text(i, pdu)
  ELSE IF pdu.type = "DISCONNECT_NOTIF"
  THEN IF c_state[i] = "IN_CHAT"
       THEN client_handle_disconnect_notif(i, pdu) ELSE client_ignore(i)
  ELSE client_ignore(i)

\* ------------------------------------------------- client: user commands
ClientSend(i, pdu) == [c2s EXCEPT ![i] = Append(@, pdu)]

Command(cmd, peer) == [cmd |-> cmd, name |-> peer]

\* amain reads a line: the loop runs while the client is not DISCONNECTED.
InputLoop(i) == ui[i] = "running" /\ c_state[i] # "DISCONNECTED"

user_initiate_chat(i, peer_username) ==
  IF c_state[i] = "IDLE"
  THEN /\ current_chat_target' = [current_chat_target EXCEPT ![i] = Some(peer_username)]
       /\ c2s' = ClientSend(i, ChatInitReqPDU(peer_username))
       /\ c_state' = [c_state EXCEPT ![i] = "INITIATING_CHAT"]
       /\ issued' = [issued EXCEPT ![i] = @ \cup {Command("chat", peer_username)}]
       /\ UNCHANGED pending_fwd_from
  ELSE UNCHANGED <<current_chat_target, c2s, c_state, issued, pending_fwd_from>>

\* Mutant of user_respond_to_chat: the name typed is not compared with
\* pending_fwd_from.
user_respond_to_chat_AnyName(i, accept, originator_username) ==
  IF c_state[i] = "PENDING_PEER_ACCEPT"
  THEN /\ c2s' = ClientSend(i, ChatFwdRespPDU(IF accept THEN SCP_CHAT_FWD_ACCEPTED
                                                       ELSE SCP_CHAT_FWD_REJECTED,
                                              originator_username))
       /\ c_state' = [c_state EXCEPT ![i] = "IDLE"]
       /\ current_chat_target' =
            IF accept
            THEN [current_chat_target EXCEPT ![i] = Some(originator_username)]
            ELSE current_chat_target
       /\ pending_fwd_from' = [pending_fwd_from EXCEPT ![i] = None]
       /\ issued' = [issued EXCEPT ![i] =
                       @ \cup {Command(IF accept THEN "accept" ELSE "reject",
                                       originator_username)}]
  ELSE UNCHANGED <<current_chat_target, c2s, c_state, issued, pending_fwd_from>>

user_respond_to_chat(i, accept, originator_username) ==
  IF c_state[i] = "PENDING_PEER_ACCEPT" /\ pending_fwd_from[i] = Some(originator_username)
  THEN /\ c2s' = ClientSend(i, ChatFwdRespPDU(IF accept THEN SCP_CHAT_FWD_ACCEPTED
                                                       ELSE SCP_CHAT_FWD_REJECTED,
                                              originator_username))
       /\ c_state' = [c_state EXCEPT ![i] = "IDLE"]
       /\ current_chat_target' =
            IF accept
            THEN [current_chat_target EXCEPT ![i] = Some(originator_username)]
            ELSE current_chat_target
       /\ pending_fwd_from' = [pending_fwd_from EXCEPT ![i] = None]
       /\ issued' = [issued EXCEPT ![i] =
                       @ \cup {Command(IF accept THEN "accept" ELSE "reject",
                                       originator_username)}]
  ELSE UNCHANGED <<current_chat_target, c2s, c_state, issued, pending_fwd_from>>

user_send_text(i, message) ==
  IF c_state[i] = "IN_CHAT"
  THEN /\ c2s' = ClientSend(i, TextPDU(message))
       /\ issued' = [issued EXCEPT ![i] = @ \cup {Command("text", message)}]
       /\ UNCHANGED <<current_chat_target, c_state, pending_fwd_from>>
  ELSE UNCHANGED <<current_chat_target, c2s, c_state, issued, pending_fwd_from>>

\* Mutant of user_disconnect: the state is not looked at.
user_disconnect_Always(i) ==
  /\ c2s' = ClientSend(i, DisconnectReqPDU)
  /\ c_state' = [c_state EXCEPT ![i] = "DISCONNECTING"]
  /\ issued' = [issued EXCEPT ![i] = @ \cup {Command("disconnect", Str_empty)}]
  /\ UNCHANGED <<current_chat_target, pending_fwd_from>>

user_disconnect(i) ==
  IF c_state[i] \notin {"DISCONNECTED", "DISCONNECTING"}
  THEN /\ c2s' = ClientSend(i, DisconnectReqPDU)
       /\ c_state' = [c_state EXCEPT ![i] = "DISCONNECTING"]
       /\ issued' = [issued EXCEPT ![i] = @ \cup {Command("disconnect", Str_empty)}]
       /\ UNCHANGED <<current_chat_target, pending_fwd_from>>
  ELSE UNCHANGED <<current_chat_target, c2s, c_state, issued, pending_fwd_from>>

user_end_chat(i) ==
  IF c_state[i] = "IN_CHAT"
  THEN user_disconnect(i)
  ELSE UNCHANGED <<current_chat_target, c2s, c_state, issued, pending_fwd_from>>

\* ---------------------------------------------- clients, server, channels
\* The PDUs the server sent in a step reach the clients whose connection is
\* open at both ends, in the order of the send_pdu calls.
RECURSIVE Deliver(_, _)
Deliver(ch, msgs) ==
  IF msgs = << >> THEN ch
  ELSE Deliver([ch EXCEPT ![Head(msgs).to] =
                  IF conn[Head(msgs).to] = "open" /\ c_transport[Head(msgs).to] = "open"
                  THEN Append(@, Head(msgs).pdu) ELSE @],
               Tail(msgs))

\* python client.py <username>: the protocol object is constructed and the
\* QUIC connection reaches the server.
ClientStart(i, name_) ==
  /\ c_transport[i] = "none"
  /\ ConnectionMade(i)
  /\ c_username' = [c_username EXCEPT ![i] = Some(name_)]
  /\ c_state' = [c_state EXCEPT ![i] =
                   IF name_ = Str_empty THEN "DISCONNECTED" ELSE "CONNECTING"]
  /\ c_transport' = [c_transport EXCEPT ![i] = "open"]
  /\ UNCHANGED <<current_chat_target, pending_fwd_from, ui, c2s, s2c, texts_left, issued>>
  /\ UNCHANGED frame_vars

\* The client's HandshakeCompleted event; connect() returns and run_client
\* starts the input task.
HandshakeCompleted(i) ==
  /\ c_transport[i] = "open"
  /\ ui[i] = "none"
  /\ ui' = [ui EXCEPT ![i] = IF c_state[i] = "DISCONNECTED" THEN "exited" ELSE "running"]
  /\ c2s' = IF c_state[i] = "CONNECTING" /\ Truthy(c_username[i])
            THEN ClientSend(i, ConnectReqPDU(c_username[i][1]))
            ELSE c2s
  /\ UNCHANGED <<c_state, c_username, current_chat_target, pending_fwd_from, c_transport,
                 s2c, texts_left, issued>>
  /\ UNCHANGED <<server_vars, frame_vars>>

\* The client's StreamDataReceived event with the next PDU of the server.
ClientReceive(i) ==
  /\ c_transport[i] = "open"
  /\ s2c[i] # << >>
  /\ client_handle_scp_message(i, Head(s2c[i]))
  /\ s2c' = [s2c EXCEPT ![i] = Tail(@)]
  /\ UNCHANGED <<c_username, c2s, texts_left, issued>>
  /\ UNCHANGED <<server_vars, frame_vars>>

UserCommand(i) ==
  /\ InputLoop(i)
  /\ UNCHANGED <<c_username, c_transport, s2c>>
  /\ UNCHANGED <<server_vars, frame_vars>>

UserChat(i, peer) ==
  UserCommand(i) /\ user_initiate_chat(i, peer) /\ UNCHANGED <<ui, texts_left>>

UserAccept(i, peer) ==
  UserCommand(i) /\ user_respond_to_chat(i, TRUE, peer) /\ UNCHANGED <<ui, texts_left>>

UserReject(i, peer) ==
  UserCommand(i) /\ user_respond_to_chat(i, FALSE, peer) /\ UNCHANGED <<ui, texts_left>>

UserText(i, message) ==
  /\ UserCommand(i)
  /\ texts_left > 0
  /\ user_send_text(i, message)
  /\ texts_left' = IF c_state[i] = "IN_CHAT" THEN texts_left - 1 ELSE texts_left
  /\ UNCHANGED ui

UserEndChat(i) ==
  UserCommand(i) /\ user_end_chat(i) /\ UNCHANGED <<ui, texts_left>>

\* /disconnect: user_disconnect, then the input loop breaks.
UserDisconnect(i) ==
  /\ UserCommand(i)
  /\ user_disconnect(i)
  /\ ui' = [ui EXCEPT ![i] = "exited"]
  /\ UNCHANGED texts_left

\* After the input loop: client.close(), or the exit of the connect() block.
ClientClose(i) ==
  /\ ui[i] = "exited"
  /\ c_transport[i] = "open"
  /\ c_transport' = [c_transport EXCEPT ![i] = "closed"]
  /\ s2c' = [s2c EXCEPT ![i] = << >>]
  /\ UNCHANGED <<c_state, c_username, current_chat_target, pending_fwd_from, ui, c2s,
                 texts_left, issued>>
  /\ UNCHANGED <<server_vars, frame_vars>>

\* The client's ConnectionTerminated event, after its own close() or after
\* the server's, once everything the server sent before has been handled.
ClientConnectionTerminated(i) ==
  /\ \/ c_transport[i] = "closed"
     \/ c_transport[i] = "open" /\ conn[i] \in {"closed", "terminated"} /\ s2c[i] = << >>
  /\ c_state' = [c_state EXCEPT ![i] = "DISCONNECTED"]
  /\ c_transport' = [c_transport EXCEPT ![i] = "terminated"]
  /\ ui' = [ui EXCEPT ![i] = "exited"]
  /\ UNCHANGED <<c_username, current_chat_target, pending_fwd_from, c2s, s2c,
                 texts_left, issued>>
  /\ UNCHANGED <<server_vars, frame_vars>>

\* The server's StreamDataReceived event with the next PDU of client i.
ServerReceive(i) ==
  /\ c2s[i] # << >>
  /\ StreamDataReceived(i, Head(c2s[i]))
  /\ c2s' = [c2s EXCEPT ![i] = Tail(@)]
  /\ s2c' = Deliver(s2c, sent')
  /\ UNCHANGED <<c_state, c_username, current_chat_target, pending_fwd_from, c_transport,
                 ui, texts_left, issued>>
  /\ UNCHANGED frame_vars

\* The server's ConnectionTerminated event, after its own close() or after
\* the client's, once everything the client sent before has been handled.
ServerConnectionTerminated(i) ==
  /\ \/ conn[i] = "closed"
     \/ conn[i] = "open" /\ c_transport[i] \in {"closed", "terminated"} /\ c2s[i] = << >>
  /\ ConnectionTerminated(i)
  /\ c2s' = [c2s EXCEPT ![i] = << >>]
  /\ s2c' = Deliver(s2c, sent')
  /\ UNCHANGED <<c_state, c_username, current_chat_target, pending_fwd_from, c_transport,
                 ui, texts_left, issued>>
  /\ UNCHANGED frame_vars

SysNext ==
  \/ \E i \in Clients, n \in ClientNames : ClientStart(i, n)
  \/ \E i \in Clients : HandshakeCompleted(i)
  \/ \E i \in Clients : ClientReceive(i)
  \/ \E i \in Clients, n \in ClientNames : UserChat(i, n)
  \/ \E i \in Clients, n \in ClientNames : UserAccept(i, n)
  \/ \E i \in Clients, n \in ClientNames : UserReject(i, n)
  \/ \E i \in Clients, t \in WireTexts : UserText(i, t)
  \/ \E i \in Clients : UserEndChat(i)
  \/ \E i \in Clients : UserDisconnect(i)
  \/ \E i \in Clients : ClientClose(i)
  \/ \E i \in Clients : ClientConnectionTerminated(i)
  \/ \E i \in Clients : ServerReceive(i)
  \/ \E i \in Clients : ServerConnectionTerminated(i)

SysSpec == Init /\ [][SysNext]_vars

\* ------------------------------------------- one client, any server
\* The client protocol object alone: whatever a server may send reaches it in
\* whatever state it is in, and the transport may be lost at any moment.
MaxQueued == 3

CliPDUs ==
  {ConnectRespPDU(st) : st \in {SCP_CONNECT_SUCCESS, SCP_CONNECT_ERR_USER_EXISTS}}
    \cup {ChatInitRespPDU(st) : st \in {SCP_CHAT_INIT_FORWARDED, SCP_CHAT_INIT_ERR_PEER_NF}}
    \cup {ChatFwdReqPDU(n) : n \in ClientNames}
    \cup {TextPDU(Str_chat_with \o n \o Str_started) : n \in ClientNames}
    \cup {TextPDU(Str_b \o Str_colon \o t) : t \in {Str_hi, Str_started_word}}
    \cup {DisconnectNotifPDU(n) : n \in ClientNames}
    \cup {ErrorPDU(code, Str_empty) :
            code \in {SCP_ERR_UNEXPECTED_MSG_TYPE, SCP_ERR_INTERNAL_SERVER_ERR}}
    \cup {DisconnectReqPDU, ConnectReqPDU(Str_b)}

\* python client.py <username>, once.
CliStart(i, name_) ==
  /\ \A d \in Conns : conn[d] = "absent"
  /\ ClientStart(i, name_)

\* StreamDataReceived with a whole PDU, in any state of the client; dispatched
\* keeps the PDU handle_scp_message was called with last.
CliReceive(i, pdu) ==
  /\ c_transport[i] # "none"
  /\ client_handle_scp_message(i, pdu)
  /\ dispatched' = <<pdu>>
  /\ UNCHANGED <<c_username, c2s, s2c, texts_left, issued>>
  /\ UNCHANGED <<server_vars, written, unread, malformed, receiver>>

\* ConnectionTerminated while the transport is open: the server or the
\* network went away.
CliTransportLost(i) ==
  /\ c_transport[i] = "open"
  /\ c_state' = [c_state EXCEPT ![i] = "DISCONNECTED"]
  /\ c_transport' = [c_transport EXCEPT ![i] = "terminated"]
  /\ ui' = [ui EXCEPT ![i] = "exited"]
  /\ UNCHANGED <<c_username, current_chat_target, pending_fwd_from, c2s, s2c,
                 texts_left, issued>>
  /\ UNCHANGED <<server_vars, frame_vars>>

CliCanSend(i) == Len(c2s[i]) < MaxQueued

CliNext ==
  \/ \E i \in Clients, n \in ClientNames : CliStart(i, n)
  \/ \E i \in Clients : HandshakeCompleted(i)
  \/ \E i \in Clients, pdu \in CliPDUs : CliReceive(i, pdu)
  \/ \E i \in Clients, n \in ClientNames : CliCanSend(i) /\ UserChat(i, n)
  \/ \E i \in Clients, n \in ClientNames : CliCanSend(i) /\ UserAccept(i, n)
  \/ \E i \in Clients, n \in ClientNames : CliCanSend(i) /\ UserReject(i, n)
  \/ \E i \in Clients, t \in WireTexts : CliCanSend(i) /\ UserText(i, t)
  \/ \E i \in Clients : CliCanSend(i) /\ UserEndChat(i)
  \/ \E i \in Clients : CliCanSend(i) /\ UserDisconnect(i)
  \/ \E i \in Clients : ClientClose(i)
  \/ \E i \in Clients : ClientConnectionTerminated(i)
  \/ \E i \in Clients : CliTransportLost(i)

CliSpec == Init /\ [][CliNext]_vars

\* ------------------------------------------- the system with fairness
\* Two clients and the server while no user types /disconnect, /endchat or a
\* line of chat.  Each event loop handles every event that has arrived, and a
\* user who is asked to accept or reject an invitation answers.
LiveNext ==
  \/ \E i \in Clients, n \in ClientNames : ClientStart(i, n)
  \/ \E i \in Clients : HandshakeCompleted(i)
  \/ \E i \in Clients : ClientReceive(i)
  \/ \E i \in Clients, n \in ClientNames : UserChat(i, n)
  \/ \E i \in Clients, n \in ClientNames : UserAccept(i, n)
  \/ \E i \in Clients, n \in ClientNames : UserReject(i, n)
  \/ \E i \in Clients : ClientConnectionTerminated(i)
  \/ \E i \in Clients : ServerReceive(i)
  \/ \E i \in Clients : ServerConnectionTerminated(i)

LiveFairness ==
  \A i \in Clients :
    /\ WF_vars(HandshakeCompleted(i))
    /\ WF_vars(ClientReceive(i))
    /\ WF_vars(ServerReceive(i))
    /\ WF_vars(\E n \in ClientNames : UserAccept(i, n) \/ UserReject(i, n))
    /\ WF_vars(ClientConnectionTerminated(i))
    /\ WF_vars(ServerConnectionTerminated(i))

LiveSpec == Init /\ [][LiveNext]_vars /\ LiveFairness

\* ------------------------------------------------------------------ framing
\* src/scp_constants.py: the header is version (1 byte), type (1 byte) and
\* payload_length (2 bytes, big endian).  Bytes are the integers 0 .. 255.
HEADER_SIZE == 4
SCP_VERSION_1_0 == 1

\* The members of SCPMessageType, at their values 0x01 .. 0x0B.
SCPMessageType ==
  <<"CONNECT_REQ", "CONNECT_RESP", "CHAT_INIT_REQ", "CHAT_INIT_RESP", "CHAT_FWD_REQ",
    "CHAT_FWD_RESP", "TEXT", "DISCONNECT_REQ", "DISCONNECT_NOTIF", "ACK", "ERROR">>

MessageTypeValue(type) == CHOOSE v \in DOMAIN SCPMessageType : SCPMessageType[v] = type

\* Mutant of PackU16: the low byte is written first.
PackU16_LittleEndian(n) == <<n % 256, (n \div 256) % 256>>

\* struct '!H': an unsigned 16-bit integer, big endian
PackU16(n) == <<(n \div 256) % 256, n % 256>>
UnpackU16(hi, lo) == hi * 256 + lo

\* str.encode('utf-8') and bytes.decode('utf-8') on the ASCII characters the
\* model writes: one byte a character.
Ord(ch) ==
  CASE ch = "a" -> 97 [] ch = "b" -> 98 [] ch = "h" -> 104 [] ch = "i" -> 105
    [] ch = "." -> 46 [] ch = " " -> 32 [] ch = ":" -> 58 [] OTHER -> 63

Chr(byte) ==
  CASE byte = 97 -> "a" [] byte = 98 -> "b" [] byte = 104 -> "h" [] byte = 105 -> "i"
    [] byte = 46 -> "." [] byte = 32 -> " " [] byte = 58 -> ":" [] OTHER -> "?"

Encode(str) == [i \in 1 .. Len(str) |-> Ord(str[i])]
Decode(bytes) == [i \in 1 .. Len(bytes) |-> Chr(bytes[i])]

\* Python's data[from:to]: the bytes at the 0-based positions from .. to - 1
\* that exist.
Slice(data, from, to) ==
  SubSeq(data, from + 1, IF to < Len(data) THEN to ELSE Len(data))

\* SCPHeader.pack
SCPHeader_pack(message_type, payload_length) ==
  <<SCP_VERSION_1_0, MessageTypeValue(message_type)>> \o PackU16(payload_length)

\* The payload each PDU class packs.
PackPayload(pdu) ==
  CASE pdu.type \in {"CONNECT_REQ", "CHAT_INIT_REQ", "CHAT_FWD_REQ", "DISCONNECT_NOTIF"} ->
         <<Len(pdu.name)>> \o Encode(pdu.name)
    [] pdu.type \in {"CONNECT_RESP", "CHAT_INIT_RESP"} -> <<pdu.status>>
    [] pdu.type = "CHAT_FWD_RESP" -> <<pdu.status, Len(pdu.name)>> \o Encode(pdu.name)
    [] pdu.type = "TEXT" -> PackU16(Len(pdu.text)) \o Encode(pdu.text)
    [] pdu.type = "DISCONNECT_REQ" -> << >>
    [] pdu.type = "ERROR" -> PackU16(pdu.code) \o <<Len(pdu.msg)>> \o Encode(pdu.msg)

\* <PDU>.pack(): header.pack() + payload
Pack(pdu) == SCPHeader_pack(pdu.type, Len(PackPayload(pdu))) \o PackPayload(pdu)

Dispatch(pdu) == [kind |-> "pdu", pdu |-> pdu, msg |-> ""]
Malformed(msg) == [kind |-> "malformed", pdu |-> NoPDU, msg |-> msg]
\* an exception that is no ValueError: IndexError, struct.error
Failed == [kind |-> "internal", pdu |-> NoPDU, msg |-> "Server error processing message"]

\* The unpack method PDU_UNPACKERS has for the type, applied to a payload.
UnpackPayload(type, payload) ==
  CASE type \in {"CONNECT_REQ", "CHAT_INIT_REQ", "CHAT_FWD_REQ", "DISCONNECT_NOTIF"} ->
         IF Len(payload) = 0 THEN Failed
         ELSE Dispatch([type |-> type,
                        name |-> Decode(Slice(payload, 1, 1 + payload[1]))])
    [] type \in {"CONNECT_RESP", "CHAT_INIT_RESP"} ->
         IF Len(payload) # 1 THEN Failed
         ELSE Dispatch([type |-> type, status |-> payload[1]])
    [] type = "CHAT_FWD_RESP" ->
         IF Len(payload) < 2 THEN Failed
         ELSE Dispatch(ChatFwdRespPDU(payload[1],
                                      Decode(Slice(payload, 2, 2 + payload[2]))))
    [] type = "TEXT" ->
         IF Len(payload) < 2 THEN Failed
         ELSE Dispatch(TextPDU(Decode(Slice(payload, 2,
                                            2 + UnpackU16(payload[1], payload[2])))))
    [] type = "DISCONNECT_REQ" -> Dispatch(DisconnectReqPDU)
    [] type = "ERROR" ->
         IF Len(payload) < 3 THEN Failed
         ELSE Dispatch(ErrorPDU(UnpackU16(payload[1], payload[2]),
                                Decode(Slice(payload, 3, 3 + payload[3]))))

\* quic_event_received, StreamDataReceived of server and client alike: the
\* bytes of one arrival event, event.data, are taken as one PDU.  Bytes after
\* HEADER_SIZE + payload_length are not looked at.
Unpack(data) ==
  IF Len(data) < HEADER_SIZE THEN Malformed("Data too short for SCP Header")
  ELSE IF data[1] # SCP_VERSION_1_0 THEN Malformed("Unsupported SCP version")
  ELSE IF data[2] \notin DOMAIN SCPMessageType THEN Malformed("not a valid SCPMessageType")
  ELSE LET payload_length == UnpackU16(data[3], data[4])
           payload == Slice(data, HEADER_SIZE, HEADER_SIZE + payload_length)
       IN IF payload_length # Len(payload) THEN Malformed("Invalid payload length")
          ELSE IF SCPMessageType[data[2]] \notin MessageTypes
            THEN Malformed("Unknown message type")
          ELSE UnpackPayload(SCPMessageType[data[2]], payload)

\* The whole PDUs written to the connection under study.
MaxWritten == 2
ServerBoundPDUs ==
  {ConnectReqPDU(Str_b), ChatInitReqPDU(Str_a), TextPDU(Str_hi), DisconnectReqPDU}
ClientBoundPDUs ==
  {ConnectRespPDU(SCP_CONNECT_SUCCESS), ChatFwdReqPDU(Str_a), TextPDU(Str_hi)}

\* No arrival is longer than everything written: the longest PDU written,
\* TEXT("hi"), packs to HEADER_SIZE + 4 bytes.
MaxArrival == MaxWritten * (HEADER_SIZE + 4)

\* One client connects; the byte stream of this connection is the one studied.
FrameConnect(c) ==
  /\ \A d \in Conns : conn[d] = "absent"
  /\ ClientStart(c, Str_b)

\* send_pdu: send_stream_data appends the packed PDU to the stream of the
\* connection (the client's one stream, client.py:55-59; server.py:64-66).
Write(c, reader, pdu) ==
  /\ c_transport[c] = "open"
  /\ conn[c] = "open"
  /\ receiver \in {"none", reader}
  /\ Len(written) < MaxWritten
  /\ receiver' = reader
  /\ written' = Append(written, pdu)
  /\ unread' = unread \o Pack(pdu)
  /\ UNCHANGED <<server_vars, client_vars, dispatched, malformed>>

\* The server's quic_event_received with a StreamDataReceived event whose data
\* are the next k bytes of the stream (server.py:75-105).
ServerArrival(c, k) ==
  /\ receiver = "server"
  /\ conn[c] = "open"
  /\ k \in 1 .. Len(unread)
  /\ unread' = SubSeq(unread, k + 1, Len(unread))
  /\ LET r == Unpack(SubSeq(unread, 1, k))
     IN IF r.kind = "pdu"
          THEN /\ StreamDataReceived(c, r.pdu)
               /\ dispatched' = Append(dispatched, r.pdu)
               /\ malformed' = malformed
          ELSE /\ sent' = <<Send(c, ErrorPDU(IF r.kind = "malformed"
                                               THEN SCP_ERR_MALFORMED_MSG
                                               ELSE SCP_ERR_INTERNAL_SERVER_ERR, r.msg),
                                 "request")>>
               /\ last' = Event("data", c, NoPDU)
               /\ malformed' = malformed + 1
               /\ dispatched' = dispatched
               /\ UNCHANGED <<session_vars, conn, max_clients>>
  /\ UNCHANGED <<client_vars, written, receiver>>

\* The client's quic_event_received with a StreamDataReceived event whose data
\* are the next k bytes of the stream (client.py:83-104); what it cannot decode
\* it logs as invalid or malformed.
ClientArrival(i, k) ==
  /\ receiver = "client"
  /\ c_transport[i] = "open"
  /\ k \in 1 .. Len(unread)
  /\ unread' = SubSeq(unread, k + 1, Len(unread))
  /\ LET r == Unpack(SubSeq(unread, 1, k))
     IN IF r.kind = "pdu"
          THEN /\ client_handle_scp_message(i, r.pdu)
               /\ dispatched' = Append(dispatched, r.pdu)
               /\ malformed' = malformed
          ELSE /\ client_ignore(i)
               /\ malformed' = malformed + 1
               /\ dispatched' = dispatched
  /\ UNCHANGED <<c_username, c2s, s2c, texts_left, issued>>
  /\ UNCHANGED <<server_vars, written, receiver>>

FrameNext ==
  \/ \E c \in Conns : FrameConnect(c)
  \/ \E c \in Conns, pdu \in ServerBoundPDUs : Write(c, "server", pdu)
  \/ \E c \in Conns, pdu \in ClientBoundPDUs : Write(c, "client", pdu)
  \/ \E c \in Conns, k \in 1 .. MaxArrival : ServerArrival(c, k)
  \/ \E c \in Conns, k \in 1 .. MaxArrival : ClientArrival(c, k)

FrameSpec == Init /\ [][FrameNext]_vars

\* -------------------------------------------------------------------- codec
\* SCPHeader.unpack on the first HEADER_SIZE bytes of data that pass its tests:
\* the header object it returns.
SCPHeader_unpack(data) ==
  [protocol_version |-> data[1],
   message_type |-> SCPMessageType[data[2]],
   payload_length |-> UnpackU16(data[3], data[4])]

\* The PDU values packed: names and texts of up to MaxStrLen characters, status
\* and error codes on both sides of a byte.
MaxStrLen == 2
CodecStrings ==
  UNION {[1 .. n -> {"a", "b"}] : n \in 0 .. MaxStrLen}
CodecStatuses == {0, 1, 3, 255}
CodecErrorCodes == {SCP_ERR_MALFORMED_MSG, SCP_ERR_INTERNAL_SERVER_ERR, 258}
CodecPDUs ==
  {ConnectReqPDU(n) : n \in CodecStrings}
    \cup {ConnectRespPDU(st) : st \in CodecStatuses}
    \cup {ChatInitReqPDU(n) : n \in CodecStrings}
    \cup {ChatInitRespPDU(st) : st \in CodecStatuses}
    \cup {ChatFwdReqPDU(n) : n \in CodecStrings}
    \cup {ChatFwdRespPDU(st, n) : st \in CodecStatuses, n \in CodecStrings}
    \cup {TextPDU(t) : t \in CodecStrings}
    \cup {DisconnectReqPDU}
    \cup {DisconnectNotifPDU(n) : n \in CodecStrings}
    \cup {ErrorPDU(code, m) : code \in CodecErrorCodes, m \in CodecStrings}

\* p.pack(): the bytes of one PDU
CodecPack(p) ==
  /\ written' = <<p>>
  /\ unread' = Pack(p)
  /\ dispatched' = << >>
  /\ malformed' = 0
  /\ UNCHANGED <<server_vars, client_vars, receiver>>

\* SCPHeader.unpack and PDU_UNPACKERS[type](payload) on those bytes, as
\* quic_event_received applies them
CodecUnpack ==
  /\ unread # << >>
  /\ LET r == Unpack(unread)
     IN /\ dispatched' = IF r.kind = "pdu" THEN <<r.pdu>> ELSE << >>
        /\ malformed' = IF r.kind = "pdu" THEN 0 ELSE 1
  /\ unread' = << >>
  /\ UNCHANGED <<server_vars, client_vars, written, receiver>>

CodecNext ==
  \/ \E p \in CodecPDUs : CodecPack(p)
  \/ CodecUnpack

CodecSpec == Init /\ [][CodecNext]_vars

\* ---------------------------------------------------------------- raw bytes
\* Byte sequences a peer can put on a connection: whole PDUs, and bytes that
\* are no PDU.
MaxRawArrivals == 4
RawData ==
  {Pack(ConnectReqPDU(Str_a)), Pack(ConnectReqPDU(Str_b)),
   Pack(ChatInitReqPDU(Str_a)), Pack(TextPDU(Str_hi)),
   <<2, 1, 0, 2, 1, 97>>,        \* CONNECT_REQ("a") under version 2
   <<1, 1>>,                     \* less than a header
   <<1, 12, 0, 0>>,              \* no member of SCPMessageType
   <<1, 10, 0, 0>>,              \* ACK: no entry in PDU_UNPACKERS
   <<1, 1, 0, 3, 1, 97>>,        \* payload_length beyond the bytes that arrived
   <<1, 1, 0, 2, 5, 97>>,        \* CONNECT_REQ: name_len 5, one byte of name
   <<1, 1, 0, 3, 1, 97, 98>>,    \* CONNECT_REQ: a byte left after the name
   <<1, 1, 0, 0>>,               \* CONNECT_REQ: no name_len
   <<1, 7, 0, 1, 0>>,            \* TEXT: half of the u16 text_len
   <<1, 7, 0, 3, 0, 5, 104>>}    \* TEXT: text_len 5, one byte of text

\* The peer's transport puts data on the connection.
RawWrite(data) ==
  /\ \E c \in Conns : conn[c] = "open"
  /\ unread = << >>
  /\ Len(dispatched) + malformed < MaxRawArrivals
  /\ unread' = data
  /\ receiver' = "server"
  /\ UNCHANGED <<server_vars, client_vars, written, dispatched, malformed>>

\* The server's StreamDataReceived event with everything that was put on the
\* connection as event.data.
RawArrival(c) == ServerArrival(c, Len(unread))

RawNext ==
  \/ \E c \in Conns : Accept(c)
  \/ \E data \in RawData : RawWrite(data)
  \/ \E c \in Conns : RawArrival(c)

RawSpec == Init /\ [][RawNext]_vars

\* ------------------------------------------------------------ relay lengths
\* The relay of a TEXT at the level of lengths, at the width of the wire: the
\* header's payload_length and the TEXT's text_len are unsigned 16-bit fields.
U16_MAX == 65535

\* struct.pack('!H', n) raises struct.error unless 0 <= n <= 65535.
StructFitsH(n) == n \in 0 .. U16_MAX

\* TextPDU.unpack on a payload of payload_length bytes whose first two bytes
\* say text_len: the number of bytes of payload[2:2+text_len]; -1 stands for
\* the struct.error on a payload of fewer than two bytes.
TextPDU_unpack_len(payload_length, text_len) ==
  IF payload_length < 2 THEN -1
  ELSE IF text_len < payload_length - 2 THEN text_len ELSE payload_length - 2

\* TextPDU(text).pack() for a text of message_len bytes: the number of bytes
\* packed; -1 stands for the struct.error of '!H' on message_len or of the
\* header on len(payload).
TextPDU_pack_len(message_len) ==
  IF StructFitsH(message_len) /\ StructFitsH(2 + message_len)
  THEN HEADER_SIZE + 2 + message_len
  ELSE -1

\* The lengths the model tries: names of the registry, and payloads at both
\* ends of what the header can say.
RelayNameLens == {1, 2, 3, 255}
RelayPayloadLens == (0 .. 4) \cup ((U16_MAX - 15) .. U16_MAX)
RelayTextLens(payload_length) ==
  {0, U16_MAX} \cup (IF payload_length >= 2 THEN {payload_length - 2} ELSE {})

\* quic_event_received and handle_text for a TEXT from a session in IN_CHAT
\* whose partner is IN_CHAT: what is sent, and to whom.
RelayOutcome(name_len, payload_length, text_len) ==
  LET n == TextPDU_unpack_len(payload_length, text_len)
      message_len == name_len + 2 + n
  IN  IF n < 0 \/ TextPDU_pack_len(message_len) < 0
      THEN [to |-> "sender", type |-> "ERROR", code |-> SCP_ERR_INTERNAL_SERVER_ERR,
            text_len |-> 0, payload_length |-> 0]
      ELSE [to |-> "peer", type |-> "TEXT", code |-> 0,
            text_len |-> message_len, payload_length |-> 2 + message_len]

\* One TEXT arrives whole; written keeps its lengths, dispatched what the
\* server sent for it.
RelayText(name_len, payload_length, text_len) ==
  /\ written' = <<[name_len |-> name_len, payload_length |-> payload_length,
                   text_len |-> text_len]>>
  /\ dispatched' = <<RelayOutcome(name_len, payload_length, text_len)>>
  /\ UNCHANGED <<server_vars, client_vars, unread, malformed, receiver>>

RelayNext ==
  \E name_len \in RelayNameLens, payload_length \in RelayPayloadLens :
    \E text_len \in RelayTextLens(payload_length) :
      RelayText(name_len, payload_length, text_len)

RelaySpec == Init /\ [][RelayNext]_vars

\* ------------------------------------------------------------------ claims
\* C1: pair symmetry.  For every session a whose peer reference is
\* b, b's peer reference is a, both are IN_CHAT, and the pending fields of both
\* are empty.
C1_PairSymmetry ==
  \A a \in Conns :
    current_chat_partner[a] # NoConn =>
      LET b == current_chat_partner[a] IN
      /\ current_chat_partner[b] = a
      /\ client_state[a] = "IN_CHAT"
      /\ client_state[b] = "IN_CHAT"
      /\ pending_chat_request_to[a] = NoConn
      /\ pending_chat_request_from[a] = NoConn
      /\ pending_chat_request_to[b] = NoConn
      /\ pending_chat_request_from[b] = NoConn

\* C2: no ghost pairs.  In every step that cleans up a paired
\* session c (a DISCONNECT_REQ of c, or the termination of c's transport), the
\* surviving peer ends with no peer and in IDLE, and the pair mapping holds no
\* entry for either of them.
C2_NoGhostPairs ==
  [][\A c \in Conns :
       ( /\ last'.conn = c
         /\ \/ last'.kind = "terminated"
            \/ last'.kind = "pdu" /\ last'.pdu.type = "DISCONNECT_REQ"
                                  /\ username[c] # None
         /\ current_chat_partner[c] # NoConn )
       => LET p == current_chat_partner[c] IN
          /\ current_chat_partner'[p] = NoConn
          /\ client_state'[p] = "IDLE"
          /\ p \notin DOMAIN chat_sessions'
          /\ c \notin DOMAIN chat_sessions']_vars

\* C3: registry membership.  A session is a value of the registry
\* iff it has completed CONNECT_REQ successfully and has not since been cleaned
\* up (its username is set); so after cleanup its name is no registry key.
C3_RegistryMembership ==
  \A c \in Conns :
    (\E n \in DOMAIN active_users : active_users[n] = c) <=> username[c] # None

\* C4: unique registration.  No two sessions are registered under one name; a
\* CONNECT_REQ in AUTHENTICATING for a registered name is answered
\* CONNECT_RESP(USER_EXISTS), leaves the registry and the holder's session as
\* they were, and the server closes the new connection.
C4_UniqueRegistration ==
  /\ [](\A n \in WireNames : Cardinality({c \in Conns : username[c] = Some(n)}) <= 1)
  /\ [][\A c \in Conns :
          ( /\ last'.kind = "pdu" /\ last'.conn = c
            /\ last'.pdu.type = "CONNECT_REQ"
            /\ client_state[c] = "AUTHENTICATING"
            /\ last'.pdu.name \in DOMAIN active_users )
          => LET h == active_users[last'.pdu.name] IN
             /\ sent' = <<Send(c, ConnectRespPDU(SCP_CONNECT_ERR_USER_EXISTS), "request")>>
             /\ active_users' = active_users
             /\ client_state'[h] = client_state[h]
             /\ username'[h] = username[h]
             /\ current_chat_partner'[h] = current_chat_partner[h]
             /\ pending_chat_request_to'[h] = pending_chat_request_to[h]
             /\ pending_chat_request_from'[h] = pending_chat_request_from[h]
             /\ chat_sessions' = chat_sessions
             /\ conn'[h] = conn[h]
             /\ conn'[c] = "closed"
             /\ username'[c] = None]_vars

\* C4 witness: a CONNECT_REQ for the name of a live, registered session has just
\* been refused.
C4_Witness ==
  /\ last.kind = "pdu" /\ last.pdu.type = "CONNECT_REQ"
  /\ last.pdu.name \in DOMAIN active_users
  /\ conn[active_users[last.pdu.name]] = "open"
  /\ username[active_users[last.pdu.name]] = Some(last.pdu.name)
  /\ active_users[last.pdu.name] # last.conn
  /\ conn[last.conn] = "closed"
  /\ sent = <<Send(last.conn, ConnectRespPDU(SCP_CONNECT_ERR_USER_EXISTS), "request")>>

\* C5: state gating, the off-table part.  A well-formed PDU from an
\* authenticated session that has no row in the table for the session's state
\* (a CHAT_FWD_RESP in AWAITING_CHAT_RESPONSE whose origin does not name the
\* session in pending_in included) is answered with exactly one
\* ERROR(UNEXPECTED_TYPE) to the sender, and no session changes state.
C5_StateGating ==
  [][\A c \in Conns :
       ( /\ last'.kind = "pdu" /\ last'.conn = c
         /\ username[c] # None
         /\ LET t == last'.pdu.type IN
            \/ t = "CONNECT_REQ" /\ client_state[c] # "AUTHENTICATING"
            \/ t = "CHAT_INIT_REQ" /\ client_state[c] # "IDLE"
            \/ t = "CHAT_FWD_RESP" /\ client_state[c] # "AWAITING_CHAT_RESPONSE"
            \/ /\ t = "CHAT_FWD_RESP" /\ client_state[c] = "AWAITING_CHAT_RESPONSE"
               /\ \/ pending_chat_request_from[c] = NoConn
                  \/ DictGet(active_users, last'.pdu.name) # pending_chat_request_from[c]
            \/ t = "TEXT" /\ client_state[c] # "IN_CHAT"
            \/ t \in ClientBoundTypes )
       => /\ Len(sent') = 1
          /\ sent'[1].to = c
          /\ sent'[1].pdu.type = "ERROR"
          /\ sent'[1].pdu.code = SCP_ERR_UNEXPECTED_MSG_TYPE
          /\ client_state' = client_state]_vars

\* C6: reject.  When a session b in AWAITING_CHAT_RESPONSE sends
\* CHAT_FWD_RESP(REJECTED, origin) and origin names the session a recorded in
\* b's pending_in, the server sends CHAT_INIT_RESP(PEER_REJECTED) to a, both
\* become IDLE, a's pending_out and b's pending_in are cleared, no pair is formed.
C6_Reject ==
  [][\A b \in Conns :
       ( /\ last'.kind = "pdu" /\ last'.conn = b
         /\ last'.pdu.type = "CHAT_FWD_RESP"
         /\ last'.pdu.status = SCP_CHAT_FWD_REJECTED
         /\ username[b] # None
         /\ client_state[b] = "AWAITING_CHAT_RESPONSE"
         /\ pending_chat_request_from[b] # NoConn
         /\ DictGet(active_users, last'.pdu.name) = pending_chat_request_from[b] )
       => LET a == pending_chat_request_from[b] IN
          /\ \E i \in 1 .. Len(sent') :
               /\ sent'[i].to = a
               /\ sent'[i].pdu.type = "CHAT_INIT_RESP"
               /\ sent'[i].pdu.status = SCP_CHAT_INIT_ERR_PEER_REJECTED
          /\ client_state'[a] = "IDLE"
          /\ client_state'[b] = "IDLE"
          /\ pending_chat_request_to'[a] = NoConn
          /\ pending_chat_request_from'[b] = NoConn
          /\ current_chat_partner'[a] = NoConn
          /\ current_chat_partner'[b] = NoConn]_vars

\* C7: accept.  When a session b in AWAITING_CHAT_RESPONSE sends
\* CHAT_FWD_RESP(ACCEPTED, origin) and origin names the session a recorded in
\* b's pending_in, that one step makes a and b each other's peer, puts both in
\* IN_CHAT, clears a's pending_out and b's pending_in and sends exactly
\* TEXT("Chat with <b> started.") to a and TEXT("Chat with <origin> started.") to
\* b; and a session gets a peer in no other step.
C7_Accept ==
  [][LET AcceptBy(b) ==
           /\ last'.kind = "pdu" /\ last'.conn = b
           /\ last'.pdu.type = "CHAT_FWD_RESP"
           /\ last'.pdu.status = SCP_CHAT_FWD_ACCEPTED
           /\ username[b] # None
           /\ client_state[b] = "AWAITING_CHAT_RESPONSE"
           /\ pending_chat_request_from[b] # NoConn
           /\ DictGet(active_users, last'.pdu.name) = pending_chat_request_from[b]
     IN /\ \A b \in Conns :
             AcceptBy(b) =>
               LET a == pending_chat_request_from[b] IN
               /\ current_chat_partner'[a] = b
               /\ current_chat_partner'[b] = a
               /\ client_state'[a] = "IN_CHAT"
               /\ client_state'[b] = "IN_CHAT"
               /\ pending_chat_request_to'[a] = NoConn
               /\ pending_chat_request_from'[b] = NoConn
               /\ Len(sent') = 2
               /\ {[to |-> sent'[i].to, pdu |-> sent'[i].pdu] : i \in 1 .. 2} =
                    {[to |-> a,
                      pdu |-> [type |-> "TEXT",
                               text |-> <<"C", "h", "a", "t", " ", "w", "i", "t", "h", " ">>
                                        \o username[b][1]
                                        \o <<" ", "s", "t", "a", "r", "t", "e", "d", ".">>]],
                     [to |-> b,
                      pdu |-> [type |-> "TEXT",
                               text |-> <<"C", "h", "a", "t", " ", "w", "i", "t", "h", " ">>
                                        \o last'.pdu.name
                                        \o <<" ", "s", "t", "a", "r", "t", "e", "d", ".">>]]}
        /\ \A x \in Conns :
             (current_chat_partner[x] = NoConn /\ current_chat_partner'[x] # NoConn) =>
               \E b \in Conns :
                 /\ AcceptBy(b)
                 /\ \/ x = b /\ current_chat_partner'[x] = pending_chat_request_from[b]
                    \/ x = pending_chat_request_from[b] /\ current_chat_partner'[x] = b]_vars

\* C7 witness: an accept has just paired two live sessions.
C7_Witness ==
  /\ last.kind = "pdu" /\ last.pdu.type = "CHAT_FWD_RESP"
  /\ last.pdu.status = SCP_CHAT_FWD_ACCEPTED
  /\ current_chat_partner[last.conn] # NoConn
  /\ current_chat_partner[current_chat_partner[last.conn]] = last.conn
  /\ username[current_chat_partner[last.conn]] = Some(last.pdu.name)
  /\ client_state[last.conn] = "IN_CHAT"
  /\ Len(sent) = 2

\* C8: forward.  When an IDLE session a sends CHAT_INIT_REQ(peer) and peer names
\* a registered session b other than a whose state is IDLE, that one step sets
\* a's pending_out to b and b's pending_in to a, moves b to
\* AWAITING_CHAT_RESPONSE and a to AWAITING_PEER_FOR_INIT, sends exactly
\* CHAT_INIT_RESP(FORWARDED) to a and CHAT_FWD_REQ(a's name) to b, and changes
\* no field of any other session, nor the registry or the pair mapping.
C8_Forward ==
  [][\A a \in Conns :
       ( /\ last'.kind = "pdu" /\ last'.conn = a
         /\ last'.pdu.type = "CHAT_INIT_REQ"
         /\ username[a] # None
         /\ client_state[a] = "IDLE"
         /\ DictGet(active_users, last'.pdu.name) \notin {NoConn, a}
         /\ client_state[DictGet(active_users, last'.pdu.name)] = "IDLE" )
       => LET b == DictGet(active_users, last'.pdu.name) IN
          /\ pending_chat_request_to'[a] = b
          /\ pending_chat_request_from'[b] = a
          /\ client_state'[b] = "AWAITING_CHAT_RESPONSE"
          /\ client_state'[a] = "AWAITING_PEER_FOR_INIT"
          /\ Len(sent') = 2
          /\ {[to |-> sent'[i].to, pdu |-> sent'[i].pdu] : i \in 1 .. 2} =
               {[to |-> a, pdu |-> [type |-> "CHAT_INIT_RESP", status |-> SCP_CHAT_INIT_FORWARDED]],
                [to |-> b, pdu |-> [type |-> "CHAT_FWD_REQ", name |-> username[a][1]]]}
          /\ \A x \in Conns \ {a, b} :
               /\ client_state'[x] = client_state[x]
               /\ username'[x] = username[x]
               /\ current_chat_partner'[x] = current_chat_partner[x]
               /\ pending_chat_request_to'[x] = pending_chat_request_to[x]
               /\ pending_chat_request_from'[x] = pending_chat_request_from[x]
               /\ conn'[x] = conn[x]
          /\ active_users' = active_users
          /\ chat_sessions' = chat_sessions]_vars

\* C8 witness: an invitation has just been forwarded between two live sessions
\* while a third session is registered.
C8_Witness ==
  /\ last.kind = "pdu" /\ last.pdu.type = "CHAT_INIT_REQ"
  /\ client_state[last.conn] = "AWAITING_PEER_FOR_INIT"
  /\ pending_chat_request_to[last.conn] # NoConn
  /\ conn[pending_chat_request_to[last.conn]] = "open"
  /\ client_state[pending_chat_request_to[last.conn]] = "AWAITING_CHAT_RESPONSE"
  /\ pending_chat_request_from[pending_chat_request_to[last.conn]] = last.conn
  /\ Len(sent) = 2
  /\ \E x \in Conns \ {last.conn, pending_chat_request_to[last.conn]} :
       username[x] # None /\ client_state[x] = "IDLE"

\* Nothing is in flight on connection i, in either direction, and both ends
\* of it are open.
Quiet(i) ==
  /\ c2s[i] = << >>
  /\ s2c[i] = << >>
  /\ c_transport[i] = "open"
  /\ conn[i] = "open"

\* a typed /chat <b's name> and nothing else; b typed /accept (or /reject)
\* <a's name> and nothing else.
Invited(a, b, answer) ==
  /\ a # b
  /\ c_username[a] # None
  /\ c_username[b] # None
  /\ issued[a] = {Command("chat", c_username[b][1])}
  /\ issued[b] = {Command(answer, c_username[a][1])}

\* C9: happy path under any interleaving. When client a has issued /chat b and
\* client b has issued /accept a, and every PDU of the two connections has been
\* delivered (in order on each connection, in any order across them), both
\* clients are IN_CHAT with each other's name as current_chat_target and both
\* server sessions are IN_CHAT and paired with each other.
C9_HappyPath ==
  \A a \in Clients, b \in Clients :
    (Invited(a, b, "accept") /\ Quiet(a) /\ Quiet(b))
      => /\ c_state[a] = "IN_CHAT"
         /\ c_state[b] = "IN_CHAT"
         /\ current_chat_target[a] = c_username[b]
         /\ current_chat_target[b] = c_username[a]
         /\ client_state[a] = "IN_CHAT"
         /\ client_state[b] = "IN_CHAT"
         /\ current_chat_partner[a] = b
         /\ current_chat_partner[b] = a

\* C10: reject seen by the originator's client. When client a has issued
\* /chat b and client b has issued /reject a, and every PDU of the two
\* connections has been delivered, the client of a is back in IDLE with
\* current_chat_target cleared (so that the next /chat is acted on): it is not
\* left in AWAITING_PEER_RESPONSE.
C10_RejectSeen ==
  \A a \in Clients, b \in Clients :
    (Invited(a, b, "reject") /\ Quiet(a) /\ Quiet(b))
      => /\ c_state[a] = "IDLE"
         /\ current_chat_target[a] = None

C12_PeerDisconnect ==
  [][\A a \in Conns :
       ( /\ last'.kind = "pdu" /\ last'.conn = a
         /\ last'.pdu.type = "DISCONNECT_REQ"
         /\ username[a] # None
         /\ current_chat_partner[a] # NoConn )
       => LET b == current_chat_partner[a] IN
          /\ Len(sent') = 1
          /\ sent'[1].to = b
          /\ sent'[1].pdu = [type |-> "DISCONNECT_NOTIF", name |-> username[a][1]]
          /\ client_state'[b] = "IDLE"
          /\ current_chat_partner'[b] = NoConn
          /\ \A n \in DOMAIN active_users' : active_users'[n] # a
          /\ conn'[a] = "closed"]_vars

\* The fields of session x are left as they are by the step.
SessionUnchanged(x) ==
  /\ client_state'[x] = client_state[x]
  /\ username'[x] = username[x]
  /\ current_chat_partner'[x] = current_chat_partner[x]
  /\ pending_chat_request_to'[x] = pending_chat_request_to[x]
  /\ pending_chat_request_from'[x] = pending_chat_request_from[x]

\* C13: busy peer and frame.  A CHAT_INIT_REQ from an IDLE session c naming a
\* registered session t whose state is not IDLE is answered with exactly
\* CHAT_INIT_RESP(PEER_BUSY) to c; c stays IDLE; and t, t's peer and the sessions
\* in t's pending fields keep every field, whatever invitation or accept is in
\* progress between them.
C13_BusyPeer ==
  [][\A c \in Conns :
       ( /\ last'.kind = "pdu" /\ last'.conn = c
         /\ last'.pdu.type = "CHAT_INIT_REQ"
         /\ username[c] # None
         /\ client_state[c] = "IDLE"
         /\ DictGet(active_users, last'.pdu.name) # NoConn
         /\ client_state[DictGet(active_users, last'.pdu.name)] # "IDLE" )
       => LET t == DictGet(active_users, last'.pdu.name) IN
          /\ Len(sent') = 1
          /\ sent'[1].to = c
          /\ sent'[1].pdu = [type |-> "CHAT_INIT_RESP",
                             status |-> SCP_CHAT_INIT_ERR_PEER_BUSY]
          /\ SessionUnchanged(c)
          /\ \A x \in {t, current_chat_partner[t], pending_chat_request_to[t],
                       pending_chat_request_from[t]} \ {NoConn} : SessionUnchanged(x)
          /\ chat_sessions' = chat_sessions
          /\ active_users' = active_users]_vars

\* C13 witness: a third session has just been answered PEER_BUSY for a live
\* session that is being invited by another live session.
C13_Witness ==
  /\ last.kind = "pdu" /\ last.pdu.type = "CHAT_INIT_REQ"
  /\ sent = <<Send(last.conn, ChatInitRespPDU(SCP_CHAT_INIT_ERR_PEER_BUSY), "request")>>
  /\ client_state[last.conn] = "IDLE"
  /\ last.pdu.name \in DOMAIN active_users
  /\ LET t == active_users[last.pdu.name] IN
     /\ conn[t] = "open"
     /\ client_state[t] = "AWAITING_CHAT_RESPONSE"
     /\ pending_chat_request_from[t] \notin {NoConn, last.conn}
     /\ conn[pending_chat_request_from[t]] = "open"
     /\ client_state[pending_chat_request_from[t]] = "AWAITING_PEER_FOR_INIT"

C15_RegistryCapacity ==
  /\ [](Cardinality(DOMAIN active_users) <= max_clients)
  /\ [][\A c \in Conns :
          ( /\ last'.kind = "pdu" /\ last'.conn = c
            /\ last'.pdu.type = "CONNECT_REQ"
            /\ client_state[c] = "AUTHENTICATING"
            /\ last'.pdu.name \notin DOMAIN active_users )
          => IF Cardinality(DOMAIN active_users) < max_clients
             THEN /\ active_users' = DictSet(active_users, last'.pdu.name, c)
                  /\ username'[c] = Some(last'.pdu.name)
                  /\ client_state'[c] = "IDLE"
                  /\ sent' = <<Send(c, ConnectRespPDU(SCP_CONNECT_SUCCESS), "request")>>
                  /\ conn'[c] = "open"
             ELSE /\ active_users' = active_users
                  /\ username'[c] = None
                  /\ client_state'[c] = "AUTHENTICATING"
                  /\ sent' = <<Send(c, ConnectRespPDU(SCP_CONNECT_ERR_SERVER_FULL),
                                    "request")>>
                  /\ conn'[c] = "closed"]_vars

\* C15 witness: a CONNECT_REQ with an unused name has just been refused because
\* the registry holds MAX_CLIENTS live sessions.
C15_Witness ==
  /\ last.kind = "pdu" /\ last.pdu.type = "CONNECT_REQ"
  /\ last.pdu.name \notin DOMAIN active_users
  /\ sent = <<Send(last.conn, ConnectRespPDU(SCP_CONNECT_ERR_SERVER_FULL), "request")>>
  /\ conn[last.conn] = "closed"
  /\ Cardinality(DOMAIN active_users) = max_clients
  /\ \A n \in DOMAIN active_users :
       conn[active_users[n]] = "open" /\ username[active_users[n]] = Some(n)

\* C16: pre-auth gate.  For a session that has not completed CONNECT_REQ, any
\* well-formed PDU other than CONNECT_REQ makes the server close that transport
\* in the step that handles it, with no change of the registry or the pair
\* mapping, no change of any other session, and no PDU sent to another session.
C16_PreAuthGate ==
  [][\A c \in Conns :
       ( /\ last'.kind = "pdu" /\ last'.conn = c
         /\ last'.pdu.type # "CONNECT_REQ"
         /\ client_state[c] = "AUTHENTICATING" )
       => /\ conn'[c] = "closed"
          /\ active_users' = active_users
          /\ chat_sessions' = chat_sessions
          /\ \A x \in Conns \ {c} : SessionUnchanged(x) /\ conn'[x] = conn[x]
          /\ \A i \in 1 .. Len(sent') : sent'[i].to = c]_vars

\* C16 witness: an unauthenticated connection has just been closed for a PDU
\* that is not a CONNECT_REQ, while two other sessions are in a chat.
C16_Witness ==
  /\ last.kind = "pdu" /\ last.pdu.type \in MessageTypes \ {"CONNECT_REQ"}
  /\ client_state[last.conn] = "AUTHENTICATING"
  /\ username[last.conn] = None
  /\ conn[last.conn] = "closed"
  /\ \E x \in Conns \ {last.conn} :
       /\ conn[x] = "open"
       /\ client_state[x] = "IN_CHAT"
       /\ current_chat_partner[x] \notin {NoConn, last.conn}
       /\ conn[current_chat_partner[x]] = "open"

\* Cleanup has run on session c and its transport has not terminated yet: the
\* session was registered (it left AUTHENTICATING), has no name any more, and
\* the server has closed its connection.
CleanedUp(c) ==
  /\ conn[c] = "closed"
  /\ username[c] = None
  /\ client_state[c] # "AUTHENTICATING"

\* C17: cleanup is idempotent.  When cleanup runs a second time on a session c
\* (the transport termination that follows the close() of the first cleanup),
\* the registry, the pair mapping and every field of every other session are
\* left exactly as they were, and no PDU is sent.
C17_CleanupIdempotent ==
  [][\A c \in Conns :
       ( /\ last'.kind = "terminated" /\ last'.conn = c
         /\ CleanedUp(c) )
       => /\ active_users' = active_users
          /\ chat_sessions' = chat_sessions
          /\ \A x \in Conns \ {c} : SessionUnchanged(x)
          /\ sent' = << >>]_vars

\* C18: no half-applied transition.  A PDU the server refuses or fails on, that
\* is, a step in which it answers the sender with an ERROR (INTERNAL, when the
\* handler failed, included), applies none of the effects of a table row: every
\* field of every session, the registry and the pair mapping are left as they
\* were (no pending field is cleared while the states of the two sessions
\* involved stay as they are).
C18_NoHalfApplied ==
  [][\A c \in Conns :
       ( /\ last'.kind = "pdu" /\ last'.conn = c
         /\ \E i \in 1 .. Len(sent') :
              sent'[i].to = c /\ sent'[i].pdu.type = "ERROR" )
       => /\ \A x \in Conns : SessionUnchanged(x)
          /\ active_users' = active_users
          /\ chat_sessions' = chat_sessions]_vars

\* The start messages the server can send: "Chat with <name> started."
StartTexts == {TextPDU(Str_chat_with \o n \o Str_started) : n \in WireNames}

\* C19: start-before-text ordering.  The server relays a TEXT of y to x only
\* while x is y's chat partner and IN_CHAT, and the step that makes x the chat
\* partner of y, the handling of an accepting CHAT_FWD_RESP, sends x a "Chat with
\* ... started." TEXT and no other PDU; so each participant is sent its start
\* message before any relayed TEXT of the other party is sent to it.
C19_StartBeforeText ==
  [][\A x \in Conns : \A y \in Conns \ {x} :
       /\ ( /\ last'.kind = "pdu" /\ last'.conn = y /\ last'.pdu.type = "TEXT"
            /\ \E i \in 1 .. Len(sent') :
                 sent'[i].to = x /\ sent'[i].pdu.type = "TEXT" )
          => /\ current_chat_partner[y] = x
             /\ client_state[x] = "IN_CHAT"
       /\ ( current_chat_partner'[y] = x /\ current_chat_partner[y] # x )
          => /\ last'.kind = "pdu" /\ last'.pdu.type = "CHAT_FWD_RESP"
             /\ last'.pdu.status = SCP_CHAT_FWD_ACCEPTED
             /\ last'.conn \in {x, y}
             /\ \E i \in 1 .. Len(sent') :
                  sent'[i].to = x /\ sent'[i].pdu \in StartTexts
             /\ \A i \in 1 .. Len(sent') :
                  sent'[i].to = x => sent'[i].pdu \in StartTexts]_vars

\* C19 witness: after an accept a TEXT of one participant has been relayed to
\* the other, both live and each the other's partner, while a third session is
\* registered.
C19_Witness ==
  /\ last.kind = "pdu" /\ last.pdu.type = "TEXT"
  /\ username[last.conn] # None
  /\ \E x \in Conns \ {last.conn} :
       /\ current_chat_partner[x] = last.conn
       /\ current_chat_partner[last.conn] = x
       /\ sent = <<Send(x, TextPDU(username[last.conn][1] \o Str_colon \o last.pdu.text),
                        "next")>>
       /\ chat_sessions = DictSet(DictSet(chat_sessions, x, last.conn), last.conn, x)
       /\ conn[x] = "open" /\ conn[last.conn] = "open"
       /\ \E z \in Conns \ {x, last.conn} : client_state[z] = "IDLE" /\ conn[z] = "open"

\* dispatched is an initial part of written.
IsPrefix(short, long) ==
  Len(short) <= Len(long) /\ short = SubSeq(long, 1, Len(short))

\* C20: framing.  However the bytes of the whole PDUs written to a connection
\* are split into arrival events, the receiver dispatches those PDUs, each once
\* and in order: what it has dispatched is always an initial part of what was
\* written, it is all of it once every byte has arrived, and no arrival is
\* reported as malformed.
C20_Framing ==
  /\ malformed = 0
  /\ IsPrefix(dispatched, written)
  /\ unread = << >> => dispatched = written

\* C21: codec round trip.  The bytes produced by packing a PDU p carry a header
\* with version 1, p's message type and a payload_length equal to the number of
\* bytes after the header, and unpacking them yields a PDU equal to p and no
\* error.
C21_CodecRoundTrip ==
  /\ unread # << >> =>
       /\ Len(unread) >= HEADER_SIZE
       /\ SCPHeader_unpack(unread).protocol_version = SCP_VERSION_1_0
       /\ SCPHeader_unpack(unread).message_type = written[1].type
       /\ SCPHeader_unpack(unread).payload_length = Len(unread) - HEADER_SIZE
  /\ (written # << >> /\ unread = << >>) =>
       /\ dispatched = written
       /\ malformed = 0

\* C21 witness: a CHAT_FWD_RESP with a name of MaxStrLen characters and an ERROR
\* whose code needs both bytes have come back from the round trip.
C21_Witness ==
  /\ unread = << >>
  /\ dispatched = written
  /\ Len(written) = 1
  /\ \/ written[1].type = "CHAT_FWD_RESP" /\ Len(written[1].name) = MaxStrLen
     \/ written[1].type = "ERROR" /\ written[1].code > 255

\* The last step was a StreamDataReceived event of the server with the bytes
\* data, handled on connection c.
ArrivedAt(c, data) ==
  /\ receiver = "server"
  /\ unread = data /\ data # << >>
  /\ unread' = << >>
  /\ last'.conn = c /\ last'.kind \in {"pdu", "data"}

\* C22: version check.  An arrival with a whole header whose version byte is not
\* 0x01 is answered with ERROR(UNSUPPORTED_VERSION) and dispatches no PDU.
C22_VersionCheck ==
  [][\A c \in Conns : \A data \in RawData :
       ( /\ ArrivedAt(c, data)
         /\ Len(data) >= HEADER_SIZE
         /\ data[1] # SCP_VERSION_1_0 )
       => /\ dispatched' = dispatched
          /\ Len(sent') = 1
          /\ sent'[1].to = c
          /\ sent'[1].pdu.type = "ERROR"
          /\ sent'[1].pdu.code = SCP_ERR_UNSUPPORTED_VERSION]_vars

\* The header of data is whole and valid and the payload it announces is what
\* follows it: what remains to be checked is inside the payload.
WellFramed(data) ==
  /\ Len(data) >= HEADER_SIZE
  /\ data[1] = SCP_VERSION_1_0
  /\ data[2] \in DOMAIN SCPMessageType
  /\ SCPMessageType[data[2]] \in MessageTypes
  /\ Len(data) = HEADER_SIZE + UnpackU16(data[3], data[4])

\* data is the packing of no PDU: the lengths inside its payload do not add up
\* to the payload.
InnerInconsistent(data) ==
  /\ WellFramed(data)
  /\ Unpack(data).kind = "pdu" => Pack(Unpack(data).pdu) # data

MalformedCodes ==
  {SCP_ERR_MALFORMED_MSG, SCP_ERR_INVALID_PAYLOAD_LEN, SCP_ERR_UNSUPPORTED_VERSION}

\* The step answers connection c with one ERROR whose code is in codes, on the
\* stream the data arrived on, and with nothing else.
AnswersError(c, codes) ==
  /\ Len(sent') = 1
  /\ sent'[1].to = c
  /\ sent'[1].stream = "request"
  /\ sent'[1].pdu.type = "ERROR"
  /\ sent'[1].pdu.code \in codes

\* C23: inner-length validation.  An arrival whose payload has inner lengths
\* that do not fit it (a name_len or text_len beyond the bytes that remain,
\* bytes left after the field, half a u16 text length) is answered with
\* ERROR(INVALID_LENGTH or MALFORMED) and dispatches no PDU.
C23_InnerLength ==
  [][\A c \in Conns : \A data \in RawData :
       ( ArrivedAt(c, data) /\ InnerInconsistent(data) )
       => /\ dispatched' = dispatched
          /\ AnswersError(c, {SCP_ERR_MALFORMED_MSG, SCP_ERR_INVALID_PAYLOAD_LEN})]_vars

\* C24: malformed robustness.  Every arrival of bytes at the server either
\* dispatches the PDU those bytes are the packing of, or reports a
\* malformed-input error to the sender and changes nothing; no other session
\* changes when an error is reported.
C24_MalformedRobust ==
  [][\A c \in Conns : \A data \in RawData :
       ArrivedAt(c, data)
       => \/ /\ dispatched' = Append(dispatched, last'.pdu)
             /\ last'.kind = "pdu"
             /\ Pack(last'.pdu) = data
          \/ /\ dispatched' = dispatched
             /\ AnswersError(c, MalformedCodes)
             /\ \A x \in Conns : SessionUnchanged(x)
             /\ active_users' = active_users
             /\ chat_sessions' = chat_sessions
             /\ conn' = conn]_vars

\* C25: malformed input and connection fate.  An arrival that is no PDU is
\* answered with an ERROR on the stream it came on and leaves all session state
\* unchanged; the connection stays open when the session is authenticated and
\* is closed when it is still AUTHENTICATING.
C25_MalformedFate ==
  [][\A c \in Conns : \A data \in RawData :
       ( ArrivedAt(c, data) /\ Unpack(data).kind # "pdu" )
       => /\ AnswersError(c, MalformedCodes \cup {SCP_ERR_INTERNAL_SERVER_ERR})
          /\ \A x \in Conns : SessionUnchanged(x)
          /\ active_users' = active_users
          /\ chat_sessions' = chat_sessions
          /\ conn'[c] = IF client_state[c] = "AUTHENTICATING" THEN "closed" ELSE "open"
          /\ \A x \in Conns \ {c} : conn'[x] = conn[x]]_vars

\* C26: established stream.  Every PDU the server sends goes out on the stream
\* on which the data of the client it is addressed to arrive; the PDUs sent
\* while another session's message is handled included.
C26_EstablishedStream ==
  \A i \in 1 .. Len(sent) : sent[i].stream = "request"

\* C27: name rule.  No session is registered under the empty name.
C27_NameRule == Str_empty \notin DOMAIN active_users

\* C28: client connect phase.  HandshakeCompleted in CONNECTING emits exactly
\* one CONNECT_REQ(username) and stays in CONNECTING; CONNECT_RESP(SUCCESS)
\* received in CONNECTING moves the client to IDLE; any other status moves it to
\* DISCONNECTED and closes the transport; a CONNECT_RESP received in another
\* state changes nothing.
C28_ClientConnect ==
  [][\A i \in Clients :
       /\ ( HandshakeCompleted(i) /\ c_state[i] = "CONNECTING" )
          => /\ c2s'[i] = Append(c2s[i], ConnectReqPDU(c_username[i][1]))
             /\ c_state'[i] = "CONNECTING"
             /\ c_transport'[i] = c_transport[i]
       /\ ( ClientReceive(i) /\ Head(s2c[i]).type = "CONNECT_RESP" )
          => /\ c2s' = c2s
             /\ IF c_state[i] # "CONNECTING"
                  THEN /\ c_state'[i] = c_state[i]
                       /\ c_transport'[i] = c_transport[i]
                       /\ current_chat_target'[i] = current_chat_target[i]
                       /\ pending_fwd_from'[i] = pending_fwd_from[i]
                       /\ ui'[i] = ui[i]
                  ELSE IF Head(s2c[i]).status = SCP_CONNECT_SUCCESS
                         THEN c_state'[i] = "IDLE" /\ c_transport'[i] = "open"
                         ELSE c_state'[i] = "DISCONNECTED" /\ c_transport'[i] = "closed"]_vars

\* C28 witness: one client is connected and IDLE and the other, refused by
\* the server, is DISCONNECTED with its transport closed by itself.
C28_Witness ==
  \E i \in Clients : \E j \in Clients \ {i} :
    /\ c_state[i] = "IDLE"
    /\ c_state[j] = "DISCONNECTED" /\ c_transport[j] = "closed"
    /\ issued[j] = {}
    /\ c_username[j] = c_username[i]

\* C29: client chat-start sentinel.  A client enters IN_CHAT only by handling a
\* chat-start TEXT, either in AWAITING_PEER_RESPONSE when the text names its
\* current_chat_target, or in IDLE after it accepted an invitation, and then
\* current_chat_target is the name parsed from the text; and whenever a client
\* is IN_CHAT and the server has it paired, its current_chat_target is the name
\* of the session the server paired it with.
C29_ChatStartSentinel ==
  /\ [][\A i \in Clients :
          ( c_state[i] # "IN_CHAT" /\ c_state'[i] = "IN_CHAT" )
          => /\ ClientReceive(i)
             /\ Head(s2c[i]) \in
                  {TextPDU(Str_chat_with \o n \o Str_started) : n \in ClientNames}
             /\ \/ /\ c_state[i] = "AWAITING_PEER_RESPONSE"
                   /\ Contains(Head(s2c[i]).text, current_chat_target[i][1])
                   /\ current_chat_target'[i] = current_chat_target[i]
                \/ /\ c_state[i] = "IDLE"
                   /\ \E n \in ClientNames : Command("accept", n) \in issued[i]
                   /\ current_chat_target'[i] = ParsePeerName(Head(s2c[i]).text)]_vars
  /\ [](\A i \in Clients :
          ( /\ c_state[i] = "IN_CHAT"
            /\ current_chat_partner[i] # NoConn
            /\ username[current_chat_partner[i]] # None )
          => current_chat_target[i] = username[current_chat_partner[i]])

\* C30: client invitation response.  /accept <name> or /reject <name> typed in
\* PENDING_PEER_ACCEPT with name equal to pending_fwd_from emits exactly one
\* CHAT_FWD_RESP(ACCEPTED or REJECTED, name), clears pending_fwd_from, moves the
\* client to IDLE and, on accept, sets current_chat_target to name; in every
\* other state, or with another name, it emits nothing and changes no field of
\* the client.
C30_InvitationResponse ==
  [][\A i \in Clients : \A n \in ClientNames : \A accept \in BOOLEAN :
       ( IF accept THEN UserAccept(i, n) ELSE UserReject(i, n) )
       => IF c_state[i] = "PENDING_PEER_ACCEPT" /\ pending_fwd_from[i] = Some(n)
            THEN /\ c2s' = [c2s EXCEPT ![i] =
                              Append(@, ChatFwdRespPDU(IF accept THEN SCP_CHAT_FWD_ACCEPTED
                                                                 ELSE SCP_CHAT_FWD_REJECTED,
                                                       n))]
                 /\ pending_fwd_from'[i] = None
                 /\ c_state'[i] = "IDLE"
                 /\ current_chat_target'[i] =
                      IF accept THEN Some(n) ELSE current_chat_target[i]
            ELSE /\ c2s' = c2s
                 /\ c_state'[i] = c_state[i]
                 /\ pending_fwd_from'[i] = pending_fwd_from[i]
                 /\ current_chat_target'[i] = current_chat_target[i]
                 /\ c_transport'[i] = c_transport[i]]_vars

\* C30 witness: a client has accepted the invitation it had pending; its
\* CHAT_FWD_RESP(ACCEPTED) is in flight and it waits in IDLE with the target set.
C30_Witness ==
  \E i \in Clients : \E n \in ClientNames :
    /\ Command("accept", n) \in issued[i]
    /\ c_state[i] = "IDLE"
    /\ pending_fwd_from[i] = None
    /\ current_chat_target[i] = Some(n)
    /\ c2s[i] = <<ChatFwdRespPDU(SCP_CHAT_FWD_ACCEPTED, n)>>

\* Client i puts a DISCONNECT_REQ on its connection in this step.
EmitsDisconnectReq(i) ==
  /\ Len(c2s'[i]) = Len(c2s[i]) + 1
  /\ c2s'[i][Len(c2s'[i])] = DisconnectReqPDU

\* C31: client disconnect command.  /disconnect in a state other than
\* DISCONNECTED and DISCONNECTING, and /endchat in IN_CHAT, emit exactly one
\* DISCONNECT_REQ and move the client to DISCONNECTING; in DISCONNECTING the
\* commands emit nothing; a DISCONNECT_REQ is emitted only by a client that is
\* not yet DISCONNECTING or DISCONNECTED, and DISCONNECTING is left only for
\* DISCONNECTED, which is not left: at most one DISCONNECT_REQ is sent per
\* connection.
C31_ClientDisconnect ==
  [][\A i \in Clients :
       /\ ( UserDisconnect(i) \/ (UserEndChat(i) /\ c_state[i] = "IN_CHAT") )
          => IF c_state[i] \notin {"DISCONNECTED", "DISCONNECTING"}
               THEN /\ c2s' = [c2s EXCEPT ![i] = Append(@, DisconnectReqPDU)]
                    /\ c_state'[i] = "DISCONNECTING"
               ELSE c2s' = c2s /\ c_state'[i] = c_state[i]
       /\ EmitsDisconnectReq(i)
          => /\ c_state[i] \notin {"DISCONNECTED", "DISCONNECTING"}
             /\ c_state'[i] = "DISCONNECTING"
       /\ c_state[i] = "DISCONNECTING"
          => c_state'[i] \in {"DISCONNECTING", "DISCONNECTED"}
       /\ ( c_state[i] = "DISCONNECTED" /\ c_transport[i] # "none" )
          => c_state'[i] = "DISCONNECTED"]_vars

\* C31 witness: a client that ended its chat with /endchat is DISCONNECTING,
\* its DISCONNECT_REQ in flight, and its input loop still reads commands.
C31_Witness ==
  \E i \in Clients :
    /\ c_state[i] = "DISCONNECTING"
    /\ ui[i] = "running"
    /\ c2s[i] = <<DisconnectReqPDU>>
    /\ current_chat_target[i] # None

\* C32: the client's ConnectionTerminated event moves it to DISCONNECTED from
\* every state, and once it is DISCONNECTED (its process started) no PDU, no
\* transport event and no user command changes its state or makes it send.
C32_ClientTermination ==
  [][\A i \in Clients :
       /\ ( CliTransportLost(i) \/ ClientConnectionTerminated(i) )
            => c_state'[i] = "DISCONNECTED" /\ c2s' = c2s
       /\ ( c_state[i] = "DISCONNECTED" /\ c_transport[i] # "none" )
            => c_state'[i] = "DISCONNECTED" /\ c2s' = c2s]_vars

\* The connection of a client that had named a peer was terminated.
C32_Witness ==
  \E i \in Clients :
    /\ c_state[i] = "DISCONNECTED"
    /\ c_transport[i] = "terminated"
    /\ current_chat_target[i] # None
    /\ pending_fwd_from[i] # None


\* The rows of the client's table of incoming PDUs: the state and the PDU of
\* each line other than "any / ERROR" and "else".
ClientRow(i, pdu) ==
  \/ c_state[i] = "CONNECTING" /\ pdu.type = "CONNECT_RESP"
  \/ c_state[i] = "INITIATING_CHAT" /\ pdu.type = "CHAT_INIT_RESP"
  \/ c_state[i] = "IDLE" /\ pdu.type = "CHAT_FWD_REQ"
  \/ /\ c_state[i] = "AWAITING_PEER_RESPONSE" /\ pdu.type = "TEXT"
     /\ current_chat_target[i] # None
     /\ Contains(pdu.text, Str_chat_with \o current_chat_target[i][1] \o Str_started)
  \/ /\ c_state[i] = "IDLE" /\ pdu.type = "TEXT"
     /\ Contains(pdu.text, Str_chat_with) /\ Contains(pdu.text, Str_started)
  \/ c_state[i] = "IN_CHAT" /\ pdu.type \in {"TEXT", "DISCONNECT_NOTIF"}

\* Handling the PDU changed nothing of the client and sent nothing.
ClientFrame(i) ==
  /\ c_state'[i] = c_state[i]
  /\ current_chat_target'[i] = current_chat_target[i]
  /\ pending_fwd_from'[i] = pending_fwd_from[i]
  /\ c_transport'[i] = c_transport[i]
  /\ c2s' = c2s

\* C33: an ERROR PDU in any client state, and any PDU that has no row for the
\* current client state, leaves the client's state unchanged and makes it send
\* nothing.
C33_Counterexample ==
  [][\A i \in Clients, pdu \in CliPDUs :
       ( CliReceive(i, pdu) /\ (pdu.type = "ERROR" \/ ~ClientRow(i, pdu)) )
         => ClientFrame(i)]_vars


\* The name of session c as an Optional[str]; None for no session.
NameOf(c) == IF c = NoConn THEN None ELSE username[c]

\* C34: client and server views agree.  Whenever no PDU is in flight between a
\* client and the server (and the connection is open at both ends), a client in
\* IDLE, AWAITING_PEER_RESPONSE, PENDING_PEER_ACCEPT or IN_CHAT has its server
\* session in IDLE, AWAITING_PEER_FOR_INIT, AWAITING_CHAT_RESPONSE or IN_CHAT
\* respectively, and the other way round; pending_fwd_from is the name of the
\* session in pending_chat_request_from, and current_chat_target in IN_CHAT is
\* the name of current_chat_partner.
C34_Counterexample ==
  \A i \in Clients :
    Quiet(i) =>
      /\ c_state[i] = "IDLE" <=> client_state[i] = "IDLE"
      /\ c_state[i] = "AWAITING_PEER_RESPONSE" <=> client_state[i] = "AWAITING_PEER_FOR_INIT"
      /\ c_state[i] = "PENDING_PEER_ACCEPT" <=> client_state[i] = "AWAITING_CHAT_RESPONSE"
      /\ c_state[i] = "IN_CHAT" <=> client_state[i] = "IN_CHAT"
      /\ c_state[i] = "PENDING_PEER_ACCEPT"
           => /\ pending_fwd_from[i] # None
              /\ pending_fwd_from[i] = NameOf(pending_chat_request_from[i])
      /\ c_state[i] = "IN_CHAT"
           => /\ current_chat_target[i] # None
              /\ current_chat_target[i] = NameOf(current_chat_partner[i])


\* Clients a and b have each typed /chat naming the other and neither has had
\* an answer yet.
MutualInvitation(a, b) ==
  /\ a # b
  /\ c_state[a] = "INITIATING_CHAT" /\ c_state[b] = "INITIATING_CHAT"
  /\ current_chat_target[a] = c_username[b]
  /\ current_chat_target[b] = c_username[a]

\* C35: simultaneous mutual invitations do not wedge the system.  When two
\* clients have each typed /chat naming the other, each of them eventually is
\* IN_CHAT or back in IDLE, whatever the order in which the server handles the
\* two CHAT_INIT_REQs and the clients the replies, with no user disconnecting.
C35_Counterexample ==
  \A a \in Clients, b \in Clients :
    MutualInvitation(a, b) ~> (c_state[a] \in {"IN_CHAT", "IDLE"})


\* Session c is a value of the registry.
Registered(c) == \E n \in DOMAIN active_users : active_users[n] = c

\* C36: pending-invitation symmetry.  In every reachable state session a has
\* pending_chat_request_to = b iff session b has pending_chat_request_from = a,
\* and then a is registered and in AWAITING_PEER_FOR_INIT and b is registered
\* and in AWAITING_CHAT_RESPONSE; and a session is in AWAITING_PEER_FOR_INIT
\* (AWAITING_CHAT_RESPONSE) only while its pending_chat_request_to
\* (pending_chat_request_from) is such a session.
C36_Counterexample ==
  /\ \A a \in Conns, b \in Conns :
       /\ pending_chat_request_to[a] = b <=> pending_chat_request_from[b] = a
       /\ pending_chat_request_to[a] = b
            => /\ Registered(a) /\ client_state[a] = "AWAITING_PEER_FOR_INIT"
               /\ Registered(b) /\ client_state[b] = "AWAITING_CHAT_RESPONSE"
  /\ \A c \in Conns :
       /\ client_state[c] = "AWAITING_PEER_FOR_INIT" => pending_chat_request_to[c] # NoConn
       /\ client_state[c] = "AWAITING_CHAT_RESPONSE" => pending_chat_request_from[c] # NoConn


\* Session c has been cleaned up, or never was: it is no session to wait for.
CleanedUpSession(c) == c = NoConn \/ username[c] = None

\* C37: an invitation always resolves.  The handlers are the only code that
\* runs, so a waiting session is released in the step that cleans up the
\* session it waits for, or not at all: no session is in AWAITING_PEER_FOR_INIT
\* while the session it invited has been cleaned up, and none is in
\* AWAITING_CHAT_RESPONSE while its inviter has been.
C37_Counterexample ==
  \A c \in Conns :
    /\ client_state[c] = "AWAITING_PEER_FOR_INIT"
         => ~CleanedUpSession(pending_chat_request_to[c])
    /\ client_state[c] = "AWAITING_CHAT_RESPONSE"
         => ~CleanedUpSession(pending_chat_request_from[c])


\* C38: the tentative target is cleared.  When a client that typed /accept is
\* in IDLE with current_chat_target set and handles an ERROR or a
\* DISCONNECT_NOTIF (the chat-start TEXT has not arrived), current_chat_target
\* is None afterwards.
C38_Counterexample ==
  [][\A i \in Clients, pdu \in CliPDUs :
       ( /\ CliReceive(i, pdu)
         /\ pdu.type \in {"ERROR", "DISCONNECT_NOTIF"}
         /\ c_state[i] = "IDLE"
         /\ current_chat_target[i] # None
         /\ Command("accept", current_chat_target[i][1]) \in issued[i] )
       => current_chat_target'[i] = None]_vars

\* C39: the relay never overflows the wire format.  For every inbound TEXT the
\* server decodes from a session in IN_CHAT, the relayed TEXT with
\* "<sender name>: " in front goes to the peer, and its text_len and the
\* payload_length of its header fit in 16 bits.
C39_Counterexample ==
  ( /\ written # << >>
    /\ TextPDU_unpack_len(written[1].payload_length, written[1].text_len) >= 0 )
  => /\ dispatched[1].to = "peer"
     /\ dispatched[1].text_len <= U16_MAX
     /\ dispatched[1].payload_length <= U16_MAX


====
